---- MODULE Spec2Model ----
(***************************************************************************)
(* EterPix VRC Uploader: the offline queue (core/offline_queue.py), the    *)
(* remote client (core/uploader.py) and the controller that owns the       *)
(* online/offline state and replays the queue (main.py, VRCUploaderApp).   *)
(*                                                                         *)
(* The controller's coroutines run on one event loop, so each action below *)
(* is the code between two awaits of one coroutine.  A remote call is an   *)
(* await: the request is issued by the action that reaches it and the      *)
(* response is an input of the action that resumes after it.               *)
(*                                                                         *)
(* The queue store is also checked on its own (StoreSpec, DamagedSpec):    *)
(* its calls never suspend, so a call is atomic unless the process dies    *)
(* inside it; queue_photo and remove_photo are therefore taken file        *)
(* operation by file operation, with a crash possible between two.         *)
(***************************************************************************)
EXTENDS Integers, Sequences, FiniteSets, Bags, TLC

\* ------------------------------------------------------------- bounds
MaxInit == 2      \* rows of each kind a previous run may have left in the store
MaxEvents == 1    \* producer events (screenshots, world joins, world leaves)
MaxSync == 2      \* try_send_queue / force_resend coroutines alive at once
MaxDirect == 1    \* direct sends (photo, join, leave) awaiting a response at once
MaxStoreIds == 3  \* queue ids handed out in a run of the store on its own
MaxBytes == 2     \* distinct photo contents
MaxDamagedJoins == 1   \* world-join rows of a damaged store
MaxDamagedPhotos == 2  \* photo rows of a damaged store

VARIABLES
    started,        \* main() has run its start-up block (main.py 628-633)
    token,          \* uploader.token is set (logged in)
    is_offline,     \* VRCUploaderApp._is_offline
    offline_queue,  \* OfflineQueueManager's files: both ledgers and the blobs
    next_id,        \* the next fresh queue id (uuid4)
    task_queue,     \* VRCUploaderApp._task_queue: coroutines not yet started
    ev_count,       \* producer events so far
    sync,           \* the bag of try_send_queue / force_resend coroutines
                    \* suspended on a remote call; each carries, as history,
                    \* the queue it met (q_joins, q_photos) and the sends it
                    \* has issued (log)
    direct,         \* the bag of direct-send coroutines suspended on theirs
    sent_ok,        \* history: queue ids whose send inside a drain succeeded
    ever_ok,        \* history: some probe or remote send has succeeded
    boot_pending,   \* history: has_pending_data() as main() saw it
    last,           \* history: what the step just taken observed
    healed,         \* environment: from now on the remote always answers ok
    notes,          \* history: the notifications the step just taken emitted
    store_pc,       \* the store call the process is inside of, and its step
    enqueued,       \* history: the records whose enqueue call returned and
                    \* whose remove call has not, of each kind, in call order
    written,        \* history: the ids whose blob write has completed
    store_last,     \* history: the store call that just returned (or died)
    loop_running,   \* the coroutine the event-loop thread is executing now
    coro_pc,        \* each coroutine's position in its code
    running,        \* OSCHandler._running
    client,         \* OSCHandler._client is set
    server,         \* OSCHandler._server is set (the listener is bound)
    current_visibility,  \* OSCHandler._current_visibility
    last_recv_value,     \* OSCHandler._last_recv_value
    default_visibility,  \* AppConfig.default_visibility
    osc_log,        \* history: what the channel operation just run did, in order
    osc_last,       \* history: that operation, and the channel as it met it
    clock,          \* datetime.now()
    photo_csv,      \* the photo ledger with every column of its rows
    posted,         \* history: the form of the last replayed upload_photo
    callbacks,      \* VRCUploaderApp._callbacks, in registration order
    delivery,       \* history: what the last notify call did
    handlers,       \* the receiver's handler threads inside _handle_recv
    ui,             \* the main thread inside MainWindow._on_visibility_changed
    sock,           \* the listener's socket is open (the port is taken)
    calls           \* history: callbacks, echoes and sends of a visibility

\* The controller's own state, the store's files and id source aside.
cvars == <<started, token, is_offline, task_queue, ev_count, sync, direct,
           sent_ok, ever_ok, boot_pending, last, healed, notes>>

\* What only a run of the store on its own keeps.
svars == <<store_pc, enqueued, written, store_last>>

\* The event loop's schedule, for a run of the coroutines' store calls.
lvars == <<loop_running, coro_pc>>

\* The control channel (core/osc_handler.py) and the setting it mirrors.
ovars == <<running, client, server, current_visibility, last_recv_value,
           default_visibility, osc_log, osc_last>>

\* A queued photo field by field.
rvars == <<clock, photo_csv, posted>>

\* The subscribers of notify.
nvars == <<callbacks, delivery>>

\* The control channel's threads.
tvars == <<handlers, ui, sock, calls>>

\* What only the runs of one handler in detail keep.
xvars == <<rvars, nvars, tvars>>

vars == <<started, token, is_offline, offline_queue, next_id, task_queue,
          ev_count, sync, direct, sent_ok, ever_ok, boot_pending, last, healed,
          notes, store_pc, enqueued, written, store_last,
          loop_running, coro_pc,
          running, client, server, current_visibility, last_recv_value,
          default_visibility, osc_log, osc_last,
          clock, photo_csv, posted, callbacks, delivery,
          handlers, ui, sock, calls>>

\* The coroutines of one run of the event loop: two screenshot handlers,
\* one world-join handler, and two try_send_queue (one scheduled by an
\* enqueue, one by the health timer).
Coros == {"shot1", "shot2", "join1", "drain1", "drain2"}

\* No coroutine has been started.
LoopOff ==
    /\ loop_running = "none"
    /\ coro_pc = [c \in Coros |-> 1]

\* The channel's fields, as one record.
Channel ==
    [running |-> running, client |-> client, server |-> server,
     current_visibility |-> current_visibility,
     last_recv_value |-> last_recv_value,
     default_visibility |-> default_visibility]

\* OSCHandler.__init__: nothing is bound, the visibility is 'self'.
NewChannel(saved) ==
    [running |-> FALSE, client |-> FALSE, server |-> FALSE,
     current_visibility |-> "self", last_recv_value |-> 0,
     default_visibility |-> saved]

\* The channel's fields hold (come to hold) the values of the record ch.
ChannelIs(ch) ==
    /\ running = ch.running
    /\ client = ch.client
    /\ server = ch.server
    /\ current_visibility = ch.current_visibility
    /\ last_recv_value = ch.last_recv_value
    /\ default_visibility = ch.default_visibility

ChannelBecomes(ch) ==
    /\ running' = ch.running
    /\ client' = ch.client
    /\ server' = ch.server
    /\ current_visibility' = ch.current_visibility
    /\ last_recv_value' = ch.last_recv_value
    /\ default_visibility' = ch.default_visibility

\* No channel operation has run yet.
NoOp ==
    [op |-> "none", vis |-> "none", code |-> 0, before |-> NewChannel("self")]

\* The channel as constructed and never started.
OscOff ==
    /\ ChannelIs(NewChannel("self"))
    /\ osc_log = <<>>
    /\ osc_last = NoOp

\* No photo has been recorded or replayed in detail.
NoForm ==
    [filename |-> "none", visibility |-> "none", taken_at |-> 0,
     world_id |-> "absent", instance_id |-> "absent", meta |-> {}]

NoPost == [sent |-> FALSE, form |-> NoForm, given |-> NoForm]

\* notify has not been called.
NoDelivery ==
    [sent |-> FALSE, event |-> "none", to |-> <<>>, raised |-> FALSE,
     printed |-> 0, registered |-> <<>>]

MaxHandlers == 2  \* handler threads of the receiver

Handlers == 1..MaxHandlers

\* A thread that has not been started.
IdleThread == [pc |-> "idle", value |-> 0, vis |-> "none"]

ExtraOff ==
    /\ clock = 0
    /\ photo_csv = <<>>
    /\ posted = NoPost
    /\ callbacks = <<>>
    /\ delivery = NoDelivery
    /\ handlers = [h \in Handlers |-> IdleThread]
    /\ ui = IdleThread
    /\ sock = FALSE
    /\ calls = <<>>

\* ------------------------------------------------- core/offline_queue.py

\* The ids of a ledger's rows, in row order.
RowIds(rows) == [i \in 1..Len(rows) |-> rows[i].id]

IdSet(rows) == {rows[i].id : i \in 1..Len(rows)}

\* A photo row: its id, its fields (ev stands for filename, world, instance,
\* visibility and taken_at) and its camera_data column, which queue_photo
\* writes as JSON text or as the empty string ("ok"); "bad" is a column that
\* is not JSON, which only damage to the file can produce.
PhotoRow(id, filename) == [id |-> id, ev |-> filename, cam |-> "ok"]

\* The content of a blob file that open(..., 'wb') has created and whose
\* write has not completed.
Partial == 0

create_blob_and_row(q, id) ==
    [q EXCEPT !.images = [i \in (DOMAIN q.images) \cup {id} |->
                             IF i = id THEN Partial ELSE q.images[i]],
              !.photos_exists = TRUE,
              !.photos = Append(q.photos, [id |-> id, ev |-> 0 - id, cam |-> "ok"])]

\* queue_photo, open(image_path, 'wb'): the blob file exists, incomplete.
create_blob(q, id) ==
    [q EXCEPT !.images = [i \in (DOMAIN q.images) \cup {id} |->
                             IF i = id THEN Partial ELSE q.images[i]]]

write_blob_truncated(q, id, jpg_bytes) == create_blob(q, id)

\* queue_photo, f.write(jpg_bytes) and the close: the blob file is complete.
write_blob(q, id, jpg_bytes) ==
    [q EXCEPT !.images = [i \in (DOMAIN q.images) \cup {id} |->
                             IF i = id THEN jpg_bytes ELSE q.images[i]]]

\* queue_photo, the append to photos.csv (the file is created, with its
\* header, when absent).
append_photo_row(q, id, filename) ==
    [q EXCEPT !.photos_exists = TRUE,
              !.photos = Append(q.photos, PhotoRow(id, filename))]

queue_photo_without_blob(q, id, jpg_bytes, filename) ==
    append_photo_row(q, id, filename)

\* queue_photo: the blob is written first, then the row is appended.
queue_photo(q, id, jpg_bytes, filename) ==
    append_photo_row(write_blob(create_blob(q, id), id, jpg_bytes), id, filename)

\* get_queued_photos raises (json.loads, on the way through the rows) when
\* a row whose blob exists has a camera_data column that is not JSON.
get_queued_photos_raises(q) ==
    /\ q.photos_exists
    /\ \E i \in 1..Len(q.photos) :
          q.photos[i].id \in DOMAIN q.images /\ q.photos[i].cam = "bad"

get_queued_photos_stops_at_missing(q) ==
    IF ~q.photos_exists THEN <<>>
    ELSE LET Missing == {i \in 1..Len(q.photos) :
                            q.photos[i].id \notin DOMAIN q.images}
             n == IF Missing = {} THEN Len(q.photos)
                  ELSE (CHOOSE i \in Missing : \A j \in Missing : i <= j) - 1
         IN  [i \in 1..n |->
                 [id |-> q.photos[i].id, ev |-> q.photos[i].ev,
                  jpg_bytes |-> q.images[q.photos[i].id]]]

\* get_queued_photos, when it does not raise: every row whose blob exists,
\* with its bytes, in row order.
get_queued_photos(q) ==
    IF ~q.photos_exists THEN <<>>
    ELSE LET HasBlob(row) == row.id \in DOMAIN q.images
             rows == SelectSeq(q.photos, HasBlob)
         IN  [i \in 1..Len(rows) |->
                 [id |-> rows[i].id, ev |-> rows[i].ev,
                  jpg_bytes |-> q.images[rows[i].id]]]

\* remove_photo, first half: unlink the blob file of that name, if any.
unlink_blob(q, queue_id) ==
    [q EXCEPT !.images = [i \in (DOMAIN q.images) \ {queue_id} |-> q.images[i]]]

\* remove_photo, second half: rewrite the ledger without the row; the
\* ledger file is unlinked when no row is left.
rewrite_photos(q, queue_id) ==
    LET Keep(row) == row.id # queue_id
        rows == SelectSeq(q.photos, Keep)
    IN  IF ~q.photos_exists THEN q
        ELSE IF rows # <<>> THEN [q EXCEPT !.photos = rows]
        ELSE [q EXCEPT !.photos = <<>>, !.photos_exists = FALSE]

remove_photo_drops_others(q, queue_id) ==
    LET Keep(row) == row.id = queue_id
        rows == SelectSeq(q.photos, Keep)
    IN  [q EXCEPT
            !.images = [i \in (DOMAIN q.images) \ {queue_id} |-> q.images[i]],
            !.photos = rows,
            !.photos_exists = q.photos_exists /\ rows # <<>>]

\* remove_photo: unlink the blob, then rewrite the ledger.
remove_photo(q, queue_id) == rewrite_photos(unlink_blob(q, queue_id), queue_id)

queue_world_join_prepends(q, id, world_id) ==
    [q EXCEPT !.worlds_exists = TRUE,
              !.worlds = <<[id |-> id, ev |-> world_id]>> \o q.worlds]

\* queue_world_join: append the row (create the file when absent).
queue_world_join(q, id, world_id) ==
    [q EXCEPT !.worlds_exists = TRUE,
              !.worlds = Append(q.worlds, [id |-> id, ev |-> world_id])]

get_queued_world_joins_reversed(q) ==
    IF ~q.worlds_exists THEN <<>>
    ELSE [i \in 1..Len(q.worlds) |-> q.worlds[Len(q.worlds) + 1 - i]]

\* get_queued_world_joins: every row, in row order.
get_queued_world_joins(q) ==
    IF ~q.worlds_exists THEN <<>> ELSE q.worlds

remove_world_join_pops_head(q, queue_id) ==
    IF ~q.worlds_exists \/ q.worlds = <<>> THEN q
    ELSE IF Len(q.worlds) > 1 THEN [q EXCEPT !.worlds = Tail(q.worlds)]
    ELSE [q EXCEPT !.worlds = <<>>, !.worlds_exists = FALSE]

\* remove_world_join: rewrite the ledger without the row; unlink it when empty.
remove_world_join(q, queue_id) ==
    LET Keep(row) == row.id # queue_id
        rows == SelectSeq(q.worlds, Keep)
    IN  IF ~q.worlds_exists THEN q
        ELSE IF rows # <<>> THEN [q EXCEPT !.worlds = rows]
        ELSE [q EXCEPT !.worlds = <<>>, !.worlds_exists = FALSE]

get_queue_counts_photos_only(q) ==
    [photos |-> IF q.photos_exists THEN Len(q.photos) ELSE 0, worlds |-> 0]

\* get_queue_counts: the rows of each ledger that exists.
get_queue_counts(q) ==
    [photos |-> IF q.photos_exists THEN Len(q.photos) ELSE 0,
     worlds |-> IF q.worlds_exists THEN Len(q.worlds) ELSE 0]

has_pending_data_never(q) == FALSE

has_pending_data(q) ==
    get_queue_counts(q).photos > 0 \/ get_queue_counts(q).worlds > 0

\* ------------------------------------------------------ core/uploader.py
\* What the remote did with a request: the transport failed (unreachable,
\* timeout, reset), or it answered with an HTTP status (200 or an error
\* status) and a body: JSON whose status field is 'error', JSON whose status
\* field is anything else ("success"), or not JSON at all.
RawOutcomes ==
    {[http |-> "transport", body |-> "none"]} \cup
    [http : {"200", "error"}, body : {"success", "error", "nojson"}]

OkOutcome == [http |-> "200", body |-> "success"]

\* upload_photo: the body of a 200; the body of an error status when it is
\* JSON; {'status': 'error'} for everything else.
upload_photo(raw) ==
    IF raw.http = "transport" \/ raw.body = "nojson" THEN "error" ELSE raw.body

\* report_instance_join: the body of a 200; {'status': 'error'} otherwise.
report_instance_join(raw) ==
    IF raw.http = "200" /\ raw.body # "nojson" THEN raw.body ELSE "error"

\* report_instance_leave: as report_instance_join.
report_instance_leave(raw) ==
    IF raw.http = "200" /\ raw.body # "nojson" THEN raw.body ELSE "error"

\* health_check: status_code == 200; False on any exception.
health_check(raw) == raw.http = "200"

\* ------------------------------------------------ main.py, VRCUploaderApp

\* _set_offline / _set_online: the new value of _is_offline.
set_offline(off) == IF ~off THEN TRUE ELSE off

set_online(off) == IF off THEN FALSE ELSE off

\* notify(event_type, data), as subscribers see it: the event and the part
\* of its payload that tells outcomes apart.
Note(event, arg) == [event |-> event, arg |-> arg]

set_offline_notify_always(off) == <<Note("offline_mode", "offline")>>

\* _set_offline / _set_online: the notification, on a change only.
set_offline_notify(off) ==
    IF ~off THEN <<Note("offline_mode", "offline")>> ELSE <<>>

set_online_notify(off) ==
    IF off THEN <<Note("offline_mode", "online")>> ELSE <<>>

\* The remote's answers the environment may give.
Outcomes == IF healed THEN {OkOutcome} ELSE RawOutcomes

NoLast ==
    [op |-> "none", via |-> "none", ok |-> FALSE, id |-> 0,
     fin |-> "none", tried |-> {}, untried |-> {}, ret |-> "none",
     mark |-> 0]

\* The step just taken got the outcome `ok` of remote operation `op`
\* (photo, join, leave, probe) for item `id`, on path `via`.
Obs(op, via, ok, id) ==
    [NoLast EXCEPT !.op = op, !.via = via, !.ok = ok, !.id = id]

IdleSync ==
    [pc |-> "idle", kind |-> "none", joins |-> <<>>, photos |-> <<>>,
     idx |-> 0, q_joins |-> <<>>, q_photos |-> <<>>, log |-> <<>>,
     mark |-> 0]

\* A coroutine that has returned is in no bag.
Returned(t) == t.pc = "idle"

\* The bag b with coroutine t, resumed, now being t2.
Resume(b, t, t2) ==
    IF Returned(t2) THEN b (-) SetToBag({t})
    ELSE (b (-) SetToBag({t})) (+) SetToBag({t2})

\* The bag b with the new coroutine t2, unless it returned without an await.
Spawn(b, t2) == IF Returned(t2) THEN b ELSE b (+) SetToBag({t2})

\* No store call is in progress.
StoreIdle == [op |-> "idle", step |-> "none", id |-> 0, arg |-> 0]

NoRecords == [photos |-> <<>>, worlds |-> <<>>]

\* A store as a previous run may have left it: nj world-join rows, np photo
\* rows, and the blobs of the photo ids in `blobs` (remove_photo unlinks the
\* blob before it rewrites the ledger, so a row may have lost its blob).
InitStore(nj, np, blobs) ==
    [worlds_exists |-> nj > 0,
     worlds |-> [i \in 1..nj |-> [id |-> i, ev |-> 0 - i]],
     photos_exists |-> np > 0,
     photos |-> [i \in 1..np |-> PhotoRow(nj + i, 0 - (nj + i))],
     images |-> [i \in blobs |-> 0 - i]]

\* No store call has returned yet.  `at` is "return" for a call that
\* returned and the step that was next for one the process died in;
\* `before` is the store as the call met it.
NoCall ==
    [op |-> "none", id |-> 0, at |-> "none", before |-> InitStore(0, 0, {})]

\* __init__ (and the token restored from the saved configuration).
Init ==
    /\ started = FALSE
    /\ token \in BOOLEAN
    /\ is_offline = FALSE
    /\ \E nj \in 0..MaxInit, np \in 0..MaxInit :
          /\ \E blobs \in SUBSET ((nj + 1)..(nj + np)) :
                offline_queue = InitStore(nj, np, blobs)
          /\ next_id = nj + np + 1
    /\ task_queue = <<>>
    /\ ev_count = 0
    /\ sync = EmptyBag
    /\ direct = EmptyBag
    /\ sent_ok = {}
    /\ ever_ok = FALSE
    /\ boot_pending = FALSE
    /\ last = NoLast
    /\ healed = FALSE
    /\ notes = <<>>
    /\ store_pc = StoreIdle
    /\ enqueued = NoRecords
    /\ written = {}
    /\ store_last = NoCall
    /\ LoopOff
    /\ OscOff
    /\ ExtraOff

Main_always_offline ==
    /\ UNCHANGED <<svars, lvars, ovars, xvars>>
    /\ ~started
    /\ started' = TRUE
    /\ is_offline' = TRUE
    /\ boot_pending' = (offline_queue.photos # <<>> \/ offline_queue.worlds # <<>>)
    /\ last' = Obs("main", "none", FALSE, 0)
    /\ notes' = <<Note("offline_mode", "offline")>>
    /\ UNCHANGED <<token, offline_queue, next_id, task_queue, ev_count, sync,
                   direct, sent_ok, ever_ok, healed>>

\* main(): the start-up block. With pending data the state becomes Offline
\* and a queue send is scheduled (the single-shot timer is HealthTimer).
Main ==
    /\ UNCHANGED <<svars, lvars, ovars, xvars>>
    /\ ~started
    /\ started' = TRUE
    /\ is_offline' = IF has_pending_data(offline_queue) THEN TRUE ELSE is_offline
    /\ notes' = IF has_pending_data(offline_queue)
                THEN <<Note("offline_mode", "offline")>> ELSE <<>>
    /\ boot_pending' = (offline_queue.photos # <<>> \/ offline_queue.worlds # <<>>)
    /\ last' = Obs("main", "none", FALSE, 0)
    /\ UNCHANGED <<token, offline_queue, next_id, task_queue, ev_count, sync,
                   direct, sent_ok, ever_ok, healed>>

\* _queue_photo: enqueue, then schedule try_send_queue.
QueuePhoto(tq, jpg_bytes, filename) ==
    /\ offline_queue' = queue_photo(offline_queue, next_id, jpg_bytes, filename)
    /\ next_id' = next_id + 1
    /\ task_queue' = Append(tq, [co |-> "try_send_queue", ev |-> 0])

\* _queue_world_join: enqueue (no send is scheduled).
QueueWorldJoin(tq, world_id) ==
    /\ offline_queue' = queue_world_join(offline_queue, next_id, world_id)
    /\ next_id' = next_id + 1
    /\ task_queue' = tq

\* _on_new_screenshot up to its await: nothing without a token, with
\* auto-upload off or when the conversion to JPEG raises; enqueue when
\* Offline; otherwise issue the upload.
NewScreenshot ==
    /\ UNCHANGED <<svars, lvars, ovars, xvars>>
    /\ started
    /\ ev_count < MaxEvents
    /\ ev_count' = ev_count + 1
    /\ last' = NoLast
    /\ \E auto_upload \in BOOLEAN, converted \in BOOLEAN :
          \/ /\ ~token \/ ~auto_upload \/ ~converted
             /\ notes' = IF ~token THEN <<Note("status", "not_logged_in")>>
                         ELSE IF ~auto_upload
                         THEN <<Note("status", "auto_upload_off")>>
                         ELSE <<Note("upload_start", "none"),
                                Note("upload_error", "none")>>
             /\ UNCHANGED <<offline_queue, next_id, task_queue, direct>>
          \/ /\ token /\ auto_upload /\ converted /\ is_offline
             /\ QueuePhoto(task_queue, ev_count + 1, ev_count + 1)
             /\ notes' = <<Note("upload_start", "none"),
                           Note("photo_queued", "none")>>
             /\ UNCHANGED direct
          \/ /\ token /\ auto_upload /\ converted /\ ~is_offline
             /\ BagCardinality(direct) < MaxDirect
             /\ direct' = direct (+) SetToBag({[kind |-> "photo", ev |-> ev_count + 1]})
             /\ notes' = <<Note("upload_start", "none")>>
             /\ UNCHANGED <<offline_queue, next_id, task_queue>>
    /\ UNCHANGED <<started, token, is_offline, sync, sent_ok, ever_ok,
                   boot_pending, healed>>

\* _on_new_screenshot after its await: Online on success; on failure
\* Offline, and the photo goes to the queue.
DirectPhotoDone(d) ==
    /\ UNCHANGED <<svars, lvars, ovars, xvars>>
    /\ d.kind = "photo"
    /\ direct' = direct (-) SetToBag({d})
    /\ \E raw \in Outcomes :
          IF upload_photo(raw) # "error"
          THEN /\ is_offline' = set_online(is_offline)
               /\ notes' = set_online_notify(is_offline)
                               \o <<Note("upload_complete", "none")>>
               /\ ever_ok' = TRUE
               /\ last' = Obs("photo", "direct", TRUE, d.ev)
               /\ UNCHANGED <<offline_queue, next_id, task_queue>>
          ELSE /\ is_offline' = set_offline(is_offline)
               /\ notes' = set_offline_notify(is_offline)
                               \o <<Note("photo_queued", "none")>>
               /\ QueuePhoto(task_queue, d.ev, d.ev)
               /\ ever_ok' = ever_ok
               /\ last' = Obs("photo", "direct", FALSE, d.ev)
    /\ UNCHANGED <<started, token, ev_count, sync, sent_ok, boot_pending, healed>>

\* _on_world_joined: with a token, schedule _report_join.
WorldJoined ==
    /\ UNCHANGED <<svars, lvars, ovars, xvars>>
    /\ started
    /\ ev_count < MaxEvents
    /\ ev_count' = ev_count + 1
    /\ task_queue' = IF token
                     THEN Append(task_queue,
                                 [co |-> "report_join", ev |-> ev_count + 1])
                     ELSE task_queue
    /\ notes' = <<Note("world_joined", "none")>>
    /\ last' = NoLast
    /\ UNCHANGED <<started, token, is_offline, offline_queue, next_id, sync,
                   direct, sent_ok, ever_ok, boot_pending, healed>>

\* _on_world_left: schedule _report_leave.
WorldLeft ==
    /\ UNCHANGED <<svars, lvars, ovars, xvars>>
    /\ started
    /\ ev_count < MaxEvents
    /\ ev_count' = ev_count + 1
    /\ task_queue' = Append(task_queue, [co |-> "report_leave", ev |-> 0])
    /\ \E world_info \in BOOLEAN :
          notes' = IF world_info THEN <<Note("world_left", "none")>> ELSE <<>>
    /\ last' = NoLast
    /\ UNCHANGED <<started, token, is_offline, offline_queue, next_id, sync,
                   direct, sent_ok, ever_ok, boot_pending, healed>>

\* try_send_queue up to its await: it returns without a token or with both
\* counts zero; otherwise the probe is issued.
try_send_queue(tok, q) ==
    IF tok /\ has_pending_data(q)
    THEN [IdleSync EXCEPT !.pc = "probe", !.kind = "try"]
    ELSE IdleSync

\* force_resend up to its await: False without a token, True with both
\* counts zero; otherwise the probe is issued.
force_resend(tok, q) ==
    IF tok /\ has_pending_data(q)
    THEN [IdleSync EXCEPT !.pc = "probe", !.kind = "force"]
    ELSE IdleSync

\* force_resend up to its await: what it notifies, and what it returns if
\* it returns there.
force_resend_notify(tok, q) ==
    IF ~tok THEN <<Note("status", "not_logged_in")>>
    ELSE IF ~has_pending_data(q) THEN <<Note("status", "no_pending")>>
    ELSE <<Note("status", "checking")>>

force_resend_return(tok, q) ==
    IF ~tok THEN "False"
    ELSE IF ~has_pending_data(q) THEN "True"
    ELSE "none"

\* process_pending_tasks starts the next scheduled coroutine, which runs up
\* to its first await: _report_join enqueues when Offline and issues the
\* report otherwise; _report_leave issues its report with a token.
StartTask ==
    /\ UNCHANGED <<svars, lvars, ovars, xvars>>
    /\ task_queue # <<>>
    /\ LET co == Head(task_queue)
           rest == Tail(task_queue)
       IN \/ /\ co.co = "report_join" /\ is_offline
             /\ QueueWorldJoin(rest, co.ev)
             /\ notes' = <<Note("world_join_queued", "none")>>
             /\ UNCHANGED <<direct, sync>>
          \/ /\ co.co = "report_join" /\ ~is_offline
             /\ BagCardinality(direct) < MaxDirect
             /\ direct' = direct (+) SetToBag({[kind |-> "join", ev |-> co.ev]})
             /\ task_queue' = rest
             /\ notes' = <<>>
             /\ UNCHANGED <<offline_queue, next_id, sync>>
          \/ /\ co.co = "report_leave" /\ ~token
             /\ task_queue' = rest
             /\ notes' = <<>>
             /\ UNCHANGED <<offline_queue, next_id, direct, sync>>
          \/ /\ co.co = "report_leave" /\ token
             /\ BagCardinality(direct) < MaxDirect
             /\ direct' = direct (+) SetToBag({[kind |-> "leave", ev |-> 0]})
             /\ task_queue' = rest
             /\ notes' = <<>>
             /\ UNCHANGED <<offline_queue, next_id, sync>>
          \/ /\ co.co = "try_send_queue"
             /\ BagCardinality(sync) < MaxSync
             /\ sync' = Spawn(sync, try_send_queue(token, offline_queue))
             /\ task_queue' = rest
             /\ notes' = <<>>
             /\ UNCHANGED <<offline_queue, next_id, direct>>
    /\ last' = NoLast
    /\ UNCHANGED <<started, token, is_offline, ev_count, sent_ok, ever_ok,
                   boot_pending, healed>>

\* _report_join after its await: Online on success; on failure Offline, and
\* the join goes to the queue.
DirectJoinDone(d) ==
    /\ UNCHANGED <<svars, lvars, ovars, xvars>>
    /\ d.kind = "join"
    /\ direct' = direct (-) SetToBag({d})
    /\ \E raw \in Outcomes :
          IF report_instance_join(raw) # "error"
          THEN /\ is_offline' = set_online(is_offline)
               /\ notes' = set_online_notify(is_offline)
               /\ ever_ok' = TRUE
               /\ last' = Obs("join", "direct", TRUE, d.ev)
               /\ UNCHANGED <<offline_queue, next_id, task_queue>>
          ELSE /\ is_offline' = set_offline(is_offline)
               /\ notes' = set_offline_notify(is_offline)
                               \o <<Note("world_join_queued", "none")>>
               /\ QueueWorldJoin(task_queue, d.ev)
               /\ ever_ok' = ever_ok
               /\ last' = Obs("join", "direct", FALSE, d.ev)
    /\ UNCHANGED <<started, token, ev_count, sync, sent_ok, boot_pending, healed>>

\* _report_leave after its await: the result is not looked at.
DirectLeaveDone(d) ==
    /\ UNCHANGED <<svars, lvars, ovars, xvars>>
    /\ d.kind = "leave"
    /\ direct' = direct (-) SetToBag({d})
    /\ \E raw \in Outcomes :
          /\ ever_ok' = (ever_ok \/ report_instance_leave(raw) # "error")
          /\ last' = Obs("leave", "direct", report_instance_leave(raw) # "error", 0)
    /\ notes' = <<>>
    /\ UNCHANGED <<started, token, is_offline, offline_queue, next_id,
                   task_queue, ev_count, sync, sent_ok, boot_pending, healed>>

\* schedule_health_check: the periodic timer (and the single shot main()
\* arms with pending data) starts try_send_queue.
HealthTimer ==
    /\ UNCHANGED <<svars, lvars, ovars, xvars>>
    /\ started
    /\ BagCardinality(sync) < MaxSync
    /\ sync' = Spawn(sync, try_send_queue(token, offline_queue))
    /\ notes' = <<>>
    /\ last' = NoLast
    /\ UNCHANGED <<started, token, is_offline, offline_queue, next_id,
                   task_queue, ev_count, direct, sent_ok, ever_ok,
                   boot_pending, healed>>

\* The resend button starts force_resend; it is disabled while one runs.
ForceResend ==
    /\ UNCHANGED <<svars, lvars, ovars, xvars>>
    /\ started
    /\ \A r \in BagToSet(sync) : r.kind # "force"
    /\ BagCardinality(sync) < MaxSync
    /\ sync' = Spawn(sync, force_resend(token, offline_queue))
    /\ notes' = force_resend_notify(token, offline_queue)
    /\ last' = [NoLast EXCEPT !.op = "force_resend",
                              !.ret = force_resend_return(token, offline_queue)]
    /\ UNCHANGED <<started, token, is_offline, offline_queue, next_id,
                   task_queue, ev_count, direct, sent_ok, ever_ok,
                   boot_pending, healed>>

\* History: the ids of the photo rows of q that have their blob, in row order.
BlobRowIds(q) ==
    LET HasBlob(row) == row.id \in DOMAIN q.images
    IN  RowIds(SelectSeq(q.photos, HasBlob))

begin_photos_skipped(t, q) == IdleSync

\* _process_offline_queue, the photo phase up to its first await: the
\* snapshot of the queued photos; the first upload is issued, or with no
\* photo the drain is complete.
begin_photos(t, q) ==
    LET photos == get_queued_photos(q) IN
    IF photos # <<>>
    THEN [t EXCEPT !.pc = "photo", !.photos = photos, !.idx = 1,
                   !.q_photos = BlobRowIds(q),
                   !.log = Append(t.log, [kind |-> "photo", id |-> photos[1].id])]
    ELSE IdleSync

\* _process_offline_queue up to its first await: return without a token;
\* the snapshot of the queued world joins; the first report is issued, or
\* with no join the photo phase begins.
process_offline_queue(t, q, tok) ==
    IF ~tok THEN IdleSync
    ELSE LET joins == get_queued_world_joins(q)
             t1 == [t EXCEPT !.q_joins = RowIds(q.worlds), !.mark = next_id]
         IN  IF joins # <<>>
             THEN [t1 EXCEPT !.pc = "join", !.joins = joins, !.idx = 1,
                             !.log = <<[kind |-> "join", id |-> joins[1].id]>>]
             ELSE begin_photos(t1, q)

\* The ids of the log entries / snapshot rows at positions lo..hi.
IdsOf(seq, lo, hi) == {seq[i].id : i \in lo..hi}

after_probe_drains_anyway(t, q, tok, alive) == process_offline_queue(t, q, tok)

\* try_send_queue / force_resend, what follows the probe: alive, the drain
\* runs up to its first remote call; not alive, the coroutine returns.
after_probe(t, q, tok, alive) ==
    IF alive THEN process_offline_queue(t, q, tok) ELSE IdleSync

\* force_resend once its drain has returned, completed or not (lines
\* 422-424): the status it notifies and the value it returns.
resend_complete(kind) ==
    IF kind = "force" THEN <<Note("status", "resend_complete")>> ELSE <<>>

resend_return(kind) == IF kind = "force" THEN "True" ELSE "none"

\* _process_offline_queue, lines 490-495: the drain got through both lists.
queue_processed == <<Note("queue_processed", "none")>>

\* try_send_queue / force_resend after the probe: alive, the state is set
\* Online and the drain runs up to its first remote call; not alive, the
\* coroutine ends (force_resend reports it and returns False).
ProbeDone(t) ==
    /\ UNCHANGED <<svars, lvars, ovars, xvars>>
    /\ t.pc = "probe"
    /\ \E raw \in Outcomes :
          LET alive == health_check(raw)
              t2 == after_probe(t, offline_queue, token, alive)
          IN  /\ is_offline' = IF alive THEN set_online(is_offline) ELSE is_offline
              /\ notes' =
                    IF alive
                    THEN set_online_notify(is_offline)
                         \o (IF t.kind = "force"
                             THEN <<Note("status", "resending")>> ELSE <<>>)
                         \o (IF t2.pc = "idle"
                             THEN (IF token THEN queue_processed ELSE <<>>)
                                  \o resend_complete(t.kind)
                             ELSE <<>>)
                    ELSE IF t.kind = "force"
                    THEN <<Note("status", "cannot_connect")>> ELSE <<>>
              /\ sync' = Resume(sync, t, t2)
              /\ ever_ok' = (ever_ok \/ alive)
              /\ last' = [Obs("probe", t.kind, alive, 0) EXCEPT
                             !.fin = IF alive /\ token /\ t2.pc = "idle"
                                     THEN "completed" ELSE "none",
                             !.ret = IF ~alive
                                     THEN (IF t.kind = "force" THEN "False"
                                           ELSE "none")
                                     ELSE IF t2.pc = "idle"
                                     THEN resend_return(t.kind) ELSE "none",
                             !.mark = IF alive /\ token /\ t2.pc = "idle"
                                      THEN next_id ELSE 0]
    /\ UNCHANGED <<started, token, offline_queue, next_id, task_queue,
                   ev_count, direct, sent_ok, boot_pending, healed>>

\* _process_offline_queue after the report of a queued world join: on
\* success the row is removed and the next join's report (or the photo
\* phase) follows; on failure the state is set Offline and the drain returns.
DrainJoinDone(t) ==
    /\ UNCHANGED <<svars, lvars, ovars, xvars>>
    /\ t.pc = "join"
    /\ LET cur == t.joins[t.idx]
       IN \E raw \in Outcomes :
             IF report_instance_join(raw) # "error"
             THEN LET q1 == remove_world_join(offline_queue, cur.id)
                      t2 == IF t.idx < Len(t.joins)
                            THEN [t EXCEPT
                                    !.idx = t.idx + 1,
                                    !.log = Append(t.log,
                                        [kind |-> "join", id |-> t.joins[t.idx + 1].id])]
                            ELSE begin_photos(t, q1)
                  IN  /\ offline_queue' = q1
                      /\ sync' = Resume(sync, t, t2)
                      /\ sent_ok' = sent_ok \cup {cur.id}
                      /\ ever_ok' = TRUE
                      /\ is_offline' = is_offline
                      /\ notes' = <<Note("queue_item_sent", "world_join")>>
                                      \o (IF t2.pc = "idle"
                                          THEN queue_processed
                                               \o resend_complete(t.kind)
                                          ELSE <<>>)
                      /\ last' = [Obs("join", "drain", TRUE, cur.id) EXCEPT
                                     !.fin = IF t2.pc = "idle"
                                             THEN "completed" ELSE "none",
                                     !.ret = IF t2.pc = "idle"
                                             THEN resend_return(t.kind)
                                             ELSE "none",
                                     !.mark = IF t2.pc = "idle"
                                              THEN t.mark ELSE 0]
             ELSE /\ is_offline' = set_offline(is_offline)
                  /\ notes' = set_offline_notify(is_offline)
                                  \o resend_complete(t.kind)
                  /\ sync' = Resume(sync, t, IdleSync)
                  /\ last' = [Obs("join", "drain", FALSE, cur.id) EXCEPT
                                 !.fin = "aborted",
                                 !.ret = resend_return(t.kind),
                                 !.tried = IdsOf(t.log, 1, Len(t.log) - 1),
                                 !.untried = IdsOf(t.joins, t.idx + 1, Len(t.joins))]
                  /\ UNCHANGED <<offline_queue, sent_ok, ever_ok>>
    /\ UNCHANGED <<started, token, next_id, task_queue, ev_count, direct,
                   boot_pending, healed>>

\* _process_offline_queue after the upload of a queued photo: on success
\* the photo is removed and the next upload follows, or the drain is
\* complete; on failure the state is set Offline and the drain returns.
DrainPhotoDone(t) ==
    /\ UNCHANGED <<svars, lvars, ovars, xvars>>
    /\ t.pc = "photo"
    /\ LET cur == t.photos[t.idx]
       IN \E raw \in Outcomes :
             IF upload_photo(raw) # "error"
             THEN LET t2 == IF t.idx < Len(t.photos)
                            THEN [t EXCEPT
                                    !.idx = t.idx + 1,
                                    !.log = Append(t.log,
                                        [kind |-> "photo", id |-> t.photos[t.idx + 1].id])]
                            ELSE IdleSync
                  IN  /\ offline_queue' = remove_photo(offline_queue, cur.id)
                      /\ sync' = Resume(sync, t, t2)
                      /\ sent_ok' = sent_ok \cup {cur.id}
                      /\ ever_ok' = TRUE
                      /\ is_offline' = is_offline
                      /\ notes' = <<Note("queue_item_sent", "photo")>>
                                      \o (IF t2.pc = "idle"
                                          THEN queue_processed
                                               \o resend_complete(t.kind)
                                          ELSE <<>>)
                      /\ last' = [Obs("photo", "drain", TRUE, cur.id) EXCEPT
                                     !.fin = IF t2.pc = "idle"
                                             THEN "completed" ELSE "none",
                                     !.ret = IF t2.pc = "idle"
                                             THEN resend_return(t.kind)
                                             ELSE "none",
                                     !.mark = IF t2.pc = "idle"
                                              THEN t.mark ELSE 0]
             ELSE /\ is_offline' = set_offline(is_offline)
                  /\ notes' = set_offline_notify(is_offline)
                                  \o resend_complete(t.kind)
                  /\ sync' = Resume(sync, t, IdleSync)
                  /\ last' = [Obs("photo", "drain", FALSE, cur.id) EXCEPT
                                 !.fin = "aborted",
                                 !.ret = resend_return(t.kind),
                                 !.tried = IdsOf(t.log, 1, Len(t.log) - 1),
                                 !.untried = IdsOf(t.photos, t.idx + 1, Len(t.photos))]
                  /\ UNCHANGED <<offline_queue, sent_ok, ever_ok>>
    /\ UNCHANGED <<started, token, next_id, task_queue, ev_count, direct,
                   boot_pending, healed>>

\* logout: the token is cleared.
Logout ==
    /\ UNCHANGED <<svars, lvars, ovars, xvars>>
    /\ started /\ token
    /\ token' = FALSE
    /\ notes' = <<>>
    /\ last' = NoLast
    /\ UNCHANGED <<started, is_offline, offline_queue, next_id, task_queue,
                   ev_count, sync, direct, sent_ok, ever_ok, boot_pending, healed>>

\* login: a successful login sets the token.
Login ==
    /\ UNCHANGED <<svars, lvars, ovars, xvars>>
    /\ started /\ ~token
    /\ token' = TRUE
    /\ notes' = <<>>
    /\ last' = NoLast
    /\ UNCHANGED <<started, is_offline, offline_queue, next_id, task_queue,
                   ev_count, sync, direct, sent_ok, ever_ok, boot_pending, healed>>

Next ==
    \/ Main
    \/ NewScreenshot
    \/ WorldJoined
    \/ WorldLeft
    \/ StartTask
    \/ HealthTimer
    \/ ForceResend
    \/ Logout
    \/ Login
    \/ \E d \in BagToSet(direct) : DirectPhotoDone(d)
    \/ \E d \in BagToSet(direct) : DirectJoinDone(d)
    \/ \E d \in BagToSet(direct) : DirectLeaveDone(d)
    \/ \E t \in BagToSet(sync) : ProbeDone(t)
    \/ \E t \in BagToSet(sync) : DrainJoinDone(t)
    \/ \E t \in BagToSet(sync) : DrainPhotoDone(t)

Spec == Init /\ [][Next]_vars

\* ----------------------------------------------------------- liveness
\* The environment from some point on: every probe and every send succeeds.
Heal ==
    /\ UNCHANGED <<svars, lvars, ovars, xvars>>
    /\ started /\ ~healed
    /\ healed' = TRUE
    /\ notes' = <<>>
    /\ last' = NoLast
    /\ UNCHANGED <<started, token, is_offline, offline_queue, next_id,
                   task_queue, ev_count, sync, direct, sent_ok, ever_ok,
                   boot_pending>>

\* The user is and stays logged in, and no earlier run crashed inside
\* remove_photo (every photo row has its blob).
InitLive ==
    /\ Init
    /\ token
    /\ IdSet(offline_queue.photos) \subseteq DOMAIN offline_queue.images

NextLive ==
    \/ Main
    \/ NewScreenshot
    \/ WorldJoined
    \/ WorldLeft
    \/ StartTask
    \/ HealthTimer
    \/ ForceResend
    \/ Heal
    \/ \E d \in BagToSet(direct) : DirectPhotoDone(d)
    \/ \E d \in BagToSet(direct) : DirectJoinDone(d)
    \/ \E d \in BagToSet(direct) : DirectLeaveDone(d)
    \/ \E t \in BagToSet(sync) : ProbeDone(t)
    \/ \E t \in BagToSet(sync) : DrainJoinDone(t)
    \/ \E t \in BagToSet(sync) : DrainPhotoDone(t)

\* Every remote call carries a timeout, so a suspended coroutine resumes;
\* the 100 ms task timer starts scheduled coroutines; the periodic health
\* timer keeps firing.
Fairness ==
    /\ WF_vars(Main)
    /\ WF_vars(StartTask)
    /\ WF_vars(HealthTimer)
    /\ WF_vars(\E d \in BagToSet(direct) : DirectPhotoDone(d))
    /\ WF_vars(\E d \in BagToSet(direct) : DirectJoinDone(d))
    /\ WF_vars(\E d \in BagToSet(direct) : DirectLeaveDone(d))
    /\ WF_vars(\E t \in BagToSet(sync) : ProbeDone(t))
    /\ WF_vars(\E t \in BagToSet(sync) : DrainJoinDone(t))
    /\ WF_vars(\E t \in BagToSet(sync) : DrainPhotoDone(t))

LiveSpec == InitLive /\ [][NextLive]_vars /\ Fairness

\* -------------------------------------------- the queue store on its own
\* The store's calls as any caller may make them.  Calls do not suspend,
\* so one runs at a time; the process may die between two file operations
\* of queue_photo or of remove_photo.

Bytes == 1..MaxBytes

StoreIds == 1..MaxStoreIds

\* No controller is running.
ControllerOff ==
    /\ started = FALSE
    /\ token = FALSE
    /\ is_offline = FALSE
    /\ task_queue = <<>>
    /\ ev_count = 0
    /\ sync = EmptyBag
    /\ direct = EmptyBag
    /\ sent_ok = {}
    /\ ever_ok = FALSE
    /\ boot_pending = FALSE
    /\ last = NoLast
    /\ healed = FALSE
    /\ notes = <<>>
    /\ ExtraOff

\* OfflineQueueManager.__init__ on an empty directory.
StoreInit ==
    /\ ControllerOff
    /\ offline_queue = InitStore(0, 0, {})
    /\ next_id = 1
    /\ store_pc = StoreIdle
    /\ enqueued = NoRecords
    /\ written = {}
    /\ store_last = NoCall
    /\ LoopOff
    /\ OscOff

Call(op, id, at, before) == [op |-> op, id |-> id, at |-> at, before |-> before]

\* queue_photo, lines 105-110: a fresh id; the blob file is opened.
QueuePhotoOpen ==
    /\ store_pc = StoreIdle
    /\ next_id <= MaxStoreIds
    /\ \E jpg_bytes \in Bytes :
          store_pc' = [op |-> "queue_photo", step |-> "write",
                       id |-> next_id, arg |-> jpg_bytes]
    /\ offline_queue' = create_blob(offline_queue, next_id)
    /\ next_id' = next_id + 1
    /\ store_last' = Call("queue_photo", next_id, "open", offline_queue)
    /\ UNCHANGED <<enqueued, written>>
    /\ UNCHANGED <<cvars, lvars, ovars, xvars>>

\* queue_photo, lines 110-111: the bytes are written and the file closed.
QueuePhotoWrite ==
    /\ store_pc.op = "queue_photo" /\ store_pc.step = "write"
    /\ offline_queue' = write_blob(offline_queue, store_pc.id, store_pc.arg)
    /\ written' = written \cup {store_pc.id}
    /\ store_pc' = [store_pc EXCEPT !.step = "append"]
    /\ store_last' = [store_last EXCEPT !.at = "write"]
    /\ UNCHANGED <<next_id, enqueued>>
    /\ UNCHANGED <<cvars, lvars, ovars, xvars>>

\* queue_photo, lines 113-134: the row is appended and the id returned.
QueuePhotoAppend ==
    /\ store_pc.op = "queue_photo" /\ store_pc.step = "append"
    /\ offline_queue' = append_photo_row(offline_queue, store_pc.id, 0 - store_pc.id)
    /\ enqueued' = [enqueued EXCEPT !.photos =
                        Append(@, [id |-> store_pc.id, ev |-> 0 - store_pc.id,
                                   jpg_bytes |-> store_pc.arg])]
    /\ store_pc' = StoreIdle
    /\ store_last' = [store_last EXCEPT !.at = "return"]
    /\ UNCHANGED <<next_id, written>>
    /\ UNCHANGED <<cvars, lvars, ovars, xvars>>

\* queue_world_join: one append.
QueueWorldJoinCall ==
    /\ store_pc = StoreIdle
    /\ next_id <= MaxStoreIds
    /\ offline_queue' = queue_world_join(offline_queue, next_id, 0 - next_id)
    /\ next_id' = next_id + 1
    /\ enqueued' = [enqueued EXCEPT !.worlds =
                        Append(@, [id |-> next_id, ev |-> 0 - next_id])]
    /\ store_last' = Call("queue_world_join", next_id, "return", offline_queue)
    /\ UNCHANGED <<store_pc, written>>
    /\ UNCHANGED <<cvars, lvars, ovars, xvars>>

\* remove_photo, lines 180-183, with any identifier: the blob is unlinked.
RemovePhotoUnlink ==
    /\ store_pc = StoreIdle
    /\ \E queue_id \in StoreIds :
          /\ offline_queue' = unlink_blob(offline_queue, queue_id)
          /\ store_pc' = [op |-> "remove_photo", step |-> "rewrite",
                          id |-> queue_id, arg |-> 0]
          /\ store_last' = Call("remove_photo", queue_id, "unlink", offline_queue)
    /\ UNCHANGED <<next_id, enqueued, written>>
    /\ UNCHANGED <<cvars, lvars, ovars, xvars>>

\* remove_photo, lines 185-201: the ledger is rewritten; the call returns.
RemovePhotoRewrite ==
    /\ store_pc.op = "remove_photo" /\ store_pc.step = "rewrite"
    /\ offline_queue' = rewrite_photos(offline_queue, store_pc.id)
    /\ LET Keep(r) == r.id # store_pc.id
       IN  enqueued' = [enqueued EXCEPT !.photos = SelectSeq(@, Keep)]
    /\ store_pc' = StoreIdle
    /\ store_last' = [store_last EXCEPT !.at = "return"]
    /\ UNCHANGED <<next_id, written>>
    /\ UNCHANGED <<cvars, lvars, ovars, xvars>>

\* remove_world_join with any identifier.
RemoveWorldJoinCall ==
    /\ store_pc = StoreIdle
    /\ \E queue_id \in StoreIds :
          /\ offline_queue' = remove_world_join(offline_queue, queue_id)
          /\ LET Keep(r) == r.id # queue_id
             IN  enqueued' = [enqueued EXCEPT !.worlds = SelectSeq(@, Keep)]
          /\ store_last' = Call("remove_world_join", queue_id, "return", offline_queue)
    /\ UNCHANGED <<next_id, store_pc, written>>
    /\ UNCHANGED <<cvars, lvars, ovars, xvars>>

\* The process dies inside a store call and is started again: the files
\* stay as the call left them.
Crash ==
    /\ store_pc # StoreIdle
    /\ store_pc' = StoreIdle
    /\ store_last' = [store_last EXCEPT !.op = "crash:" \o store_pc.op,
                                        !.at = store_pc.step]
    /\ UNCHANGED <<offline_queue, next_id, enqueued, written>>
    /\ UNCHANGED <<cvars, lvars, ovars, xvars>>

StoreNext ==
    \/ QueuePhotoOpen
    \/ QueuePhotoWrite
    \/ QueuePhotoAppend
    \/ QueueWorldJoinCall
    \/ RemovePhotoUnlink
    \/ RemovePhotoRewrite
    \/ RemoveWorldJoinCall
    \/ Crash

StoreSpec == StoreInit /\ [][StoreNext]_vars

\* A store whose files were damaged from outside: a photo row may carry a
\* camera_data column that is not JSON, a row's blob may be gone, and a
\* ledger file may hold its header and no row.
DamagedStore(nj, np, cams, blobs, header_only) ==
    [worlds_exists |-> nj > 0 \/ header_only,
     worlds |-> [i \in 1..nj |-> [id |-> i, ev |-> 0 - i]],
     photos_exists |-> np > 0 \/ header_only,
     photos |-> [i \in 1..np |->
                    [PhotoRow(nj + i, 0 - (nj + i)) EXCEPT !.cam = cams[i]]],
     images |-> [i \in blobs |-> 1]]

DamagedInit ==
    /\ ControllerOff
    /\ \E nj \in 0..MaxDamagedJoins, np \in 0..MaxDamagedPhotos,
          header_only \in BOOLEAN :
       \E cams \in [1..np -> {"ok", "bad"}], blobs \in SUBSET ((nj + 1)..(nj + np)) :
          /\ offline_queue = DamagedStore(nj, np, cams, blobs, header_only)
          /\ next_id = nj + np + 1
          /\ enqueued =
                [photos |-> [i \in 1..np |->
                                [id |-> nj + i, ev |-> 0 - (nj + i), jpg_bytes |-> 1]],
                 worlds |-> offline_queue.worlds]
          /\ written = (nj + 1)..(nj + np)
    /\ store_pc = StoreIdle
    /\ store_last = NoCall
    /\ LoopOff
    /\ OscOff

DamagedSpec == DamagedInit /\ [][StoreNext]_vars

\* ------------------------------------------------------------ clear_all

unlink_photos_csv_first_row(q) ==
    IF ~q.photos_exists THEN q
    ELSE IF Len(q.photos) > 1 THEN [q EXCEPT !.photos = Tail(@)]
    ELSE [q EXCEPT !.photos = <<>>, !.photos_exists = FALSE]

\* clear_all, lines 334-336: the photo ledger file is unlinked if it is
\* there, rows and header in one step.
unlink_photos_csv(q) ==
    IF ~q.photos_exists THEN q
    ELSE [q EXCEPT !.photos = <<>>, !.photos_exists = FALSE]

\* clear_all, lines 338-340: the same for the world-join ledger.
unlink_worlds_csv(q) ==
    IF ~q.worlds_exists THEN q
    ELSE [q EXCEPT !.worlds = <<>>, !.worlds_exists = FALSE]

\* clear_all, first step.
ClearAllPhotos ==
    /\ store_pc = StoreIdle
    /\ offline_queue' = unlink_photos_csv(offline_queue)
    /\ enqueued' = [enqueued EXCEPT !.photos = <<>>]
    /\ store_pc' = [op |-> "clear_all", step |-> "worlds", id |-> 0, arg |-> 0]
    /\ store_last' = Call("clear_all", 0, "photos", offline_queue)
    /\ UNCHANGED <<next_id, written>>
    /\ UNCHANGED <<cvars, lvars, ovars, xvars>>

\* clear_all, second step.
ClearAllWorlds ==
    /\ store_pc.op = "clear_all" /\ store_pc.step = "worlds"
    /\ offline_queue' = unlink_worlds_csv(offline_queue)
    /\ enqueued' = [enqueued EXCEPT !.worlds = <<>>]
    /\ store_pc' = [store_pc EXCEPT !.step = "rmtree"]
    /\ store_last' = [store_last EXCEPT !.at = "worlds"]
    /\ UNCHANGED <<next_id, written>>
    /\ UNCHANGED <<cvars, lvars, ovars, xvars>>

\* clear_all, line 344: shutil.rmtree unlinks the blobs one at a time, in
\* directory order.
ClearAllRmtree ==
    /\ store_pc.op = "clear_all" /\ store_pc.step = "rmtree"
    /\ \E i \in DOMAIN offline_queue.images :
          offline_queue' = unlink_blob(offline_queue, i)
    /\ store_last' = [store_last EXCEPT !.at = "rmtree"]
    /\ UNCHANGED <<next_id, store_pc, enqueued, written>>
    /\ UNCHANGED <<cvars, lvars, ovars, xvars>>

\* clear_all, lines 344-345: the directory is empty, is removed and made
\* again; the call returns.
ClearAllMkdir ==
    /\ store_pc.op = "clear_all" /\ store_pc.step = "rmtree"
    /\ DOMAIN offline_queue.images = {}
    /\ store_pc' = StoreIdle
    /\ store_last' = [store_last EXCEPT !.at = "return"]
    /\ UNCHANGED <<offline_queue, next_id, enqueued, written>>
    /\ UNCHANGED <<cvars, lvars, ovars, xvars>>

ClearNext ==
    \/ StoreNext
    \/ ClearAllPhotos
    \/ ClearAllWorlds
    \/ ClearAllRmtree
    \/ ClearAllMkdir

\* The store on its own, with clear_all among its calls.
ClearSpec == StoreInit /\ [][ClearNext]_vars

\* ------------------------------------------- the event loop's coroutines

\* One step of a coroutine's code: a remote call it awaits, or one file
\* operation of a mutating store call.  `ends_on` is the outcome of the
\* awaited call on which the coroutine goes no further.
Await(call, ends_on) ==
    [kind |-> "await", call |-> call, ledger |-> "none", part |-> 0,
     ends_on |-> ends_on]

FileOp(call, ledger, part) ==
    [kind |-> "store", call |-> call, ledger |-> ledger, part |-> part,
     ends_on |-> "never"]

\* queue_photo: write the blob, test for the ledger file, append the row.
queue_photo_ops ==
    <<FileOp("queue_photo", "photos", 1), FileOp("queue_photo", "photos", 2),
      FileOp("queue_photo", "photos", 3)>>

\* queue_world_join: test for the ledger file, append the row.
queue_world_join_ops ==
    <<FileOp("queue_world_join", "worlds", 1),
      FileOp("queue_world_join", "worlds", 2)>>

\* remove_photo: unlink the blob, read the rows, write the rows kept.
remove_photo_ops ==
    <<FileOp("remove_photo", "photos", 1), FileOp("remove_photo", "photos", 2),
      FileOp("remove_photo", "photos", 3)>>

\* remove_world_join: read the rows, write the rows kept.
remove_world_join_ops ==
    <<FileOp("remove_world_join", "worlds", 1),
      FileOp("remove_world_join", "worlds", 2)>>

\* _on_new_screenshot: the upload is awaited; when it fails the photo is
\* queued (online at the start; offline it is queued with no await).
on_new_screenshot == <<Await("upload_photo", "ok")>> \o queue_photo_ops

\* _report_join: the report is awaited; when it fails the join is queued.
report_join == <<Await("report_instance_join", "ok")>> \o queue_world_join_ops

\* try_send_queue with one world join and one photo queued: the probe,
\* then each send is awaited and each item sent is removed.
try_send_queue_code ==
    <<Await("health_check", "fail"), Await("report_instance_join", "fail")>>
    \o remove_world_join_ops
    \o <<Await("upload_photo", "fail")>>
    \o remove_photo_ops

Code(c) ==
    IF c \in {"shot1", "shot2"} THEN on_new_screenshot
    ELSE IF c = "join1" THEN report_join
    ELSE try_send_queue_code

Finished(c) == coro_pc[c] > Len(Code(c))

suspends_everywhere(step) == TRUE

\* The only places where a coroutine gives the thread back to the event
\* loop are its awaits; no store call holds one.
suspends(step) == step.kind = "await"

\* The loop runs coroutine c (picking it when the thread is free) up to
\* and including its next await, where c is suspended.
CoroAwait(c) ==
    /\ loop_running \in {"none", c}
    /\ ~Finished(c)
    /\ suspends(Code(c)[coro_pc[c]])
    /\ \E outcome \in {"ok", "fail"} :
          coro_pc' = [coro_pc EXCEPT ![c] =
                         IF Code(c)[@].ends_on = outcome
                         THEN Len(Code(c)) + 1 ELSE @ + 1]
    /\ loop_running' = "none"
    /\ UNCHANGED <<cvars, svars, ovars, xvars, offline_queue, next_id>>

\* Coroutine c, holding the thread, does the next file operation of its
\* store call; it keeps the thread unless its code ends there.
CoroFileOp(c) ==
    /\ loop_running \in {"none", c}
    /\ ~Finished(c)
    /\ ~suspends(Code(c)[coro_pc[c]])
    /\ coro_pc' = [coro_pc EXCEPT ![c] = @ + 1]
    /\ loop_running' = IF coro_pc[c] = Len(Code(c)) THEN "none" ELSE c
    /\ UNCHANGED <<cvars, svars, ovars, xvars, offline_queue, next_id>>

LoopInit ==
    /\ ControllerOff
    /\ offline_queue = InitStore(0, 0, {})
    /\ next_id = 1
    /\ store_pc = StoreIdle
    /\ enqueued = NoRecords
    /\ written = {}
    /\ store_last = NoCall
    /\ LoopOff
    /\ OscOff

LoopNext ==
    \/ \E c \in Coros : CoroAwait(c)
    \/ \E c \in Coros : CoroFileOp(c)

\* The coroutines on the one event-loop thread, as far as their store
\* calls go.
LoopSpec == LoopInit /\ [][LoopNext]_vars

\* --------------------------------------------------- core/osc_handler.py

MaxCode == 6

\* The inbound codes tried: 0 and MaxCode lie outside OSC_TO_VISIBILITY.
RecvCodes == 0..MaxCode

Visibilities == {"self", "friends", "instance_friends", "instance", "public"}

\* What config.json may hold as default_visibility: any string.
SavedValues == Visibilities \cup {"everyone"}

VISIBILITY_TO_OSC ==
    ("self" :> 101) @@ ("friends" :> 102) @@ ("instance_friends" :> 103)
    @@ ("instance" :> 104) @@ ("public" :> 105)

OSC_TO_VISIBILITY ==
    (1 :> "self") @@ (2 :> "friends") @@ (3 :> "instance_friends")
    @@ (4 :> "instance") @@ (5 :> "public")

\* One thing a channel operation did that others can see: a message sent to
\* the peer ("send", with its code) or the change callback invoked
\* ("callback", with its argument); `cur` is _current_visibility then.
Event(ev, vis, code, cur) == [ev |-> ev, vis |-> vis, code |-> code, cur |-> cur]

\* An operation works on st = [ch |-> the channel's fields, log |-> what it
\* has done so far].
Now == [ch |-> Channel, log |-> <<>>]

\* self._client.send_message(OSC_PARAM_SEND, value); a transport error is
\* caught and printed by the caller.
send_message(st, value) ==
    [st EXCEPT !.log = Append(@, Event("send", "none", value,
                                       st.ch.current_visibility))]

send_visibility_unmapped(st, visibility) ==
    IF ~st.ch.client THEN st
    ELSE send_message([st EXCEPT !.ch.current_visibility = visibility],
                      IF visibility \in DOMAIN VISIBILITY_TO_OSC
                      THEN VISIBILITY_TO_OSC[visibility] - 100 ELSE 101)

\* OSCHandler.send_visibility.
send_visibility(st, visibility) ==
    IF ~st.ch.client THEN st
    ELSE LET osc_value == IF visibility \in DOMAIN VISIBILITY_TO_OSC
                          THEN VISIBILITY_TO_OSC[visibility] ELSE 101
         IN  send_message([st EXCEPT !.ch.current_visibility = visibility],
                          osc_value)

\* OSCHandler.send_status.
send_status(st, value) ==
    IF ~st.ch.client THEN st ELSE send_message(st, value)

start_again(st, bind_ok) ==
    IF bind_ok
    THEN send_status([st EXCEPT !.ch.client = TRUE, !.ch.server = TRUE,
                                !.ch.running = TRUE], 100)
    ELSE [st EXCEPT !.ch.client = TRUE, !.ch.running = FALSE]

\* OSCHandler.start: the client is made first (line 86); when the bind
\* (92-95) raises, the handler at 111-113 clears _running and nothing else.
start(st, bind_ok) ==
    IF st.ch.running THEN st
    ELSE IF bind_ok
    THEN send_status([st EXCEPT !.ch.client = TRUE, !.ch.server = TRUE,
                                !.ch.running = TRUE], 100)
    ELSE [st EXCEPT !.ch.client = TRUE, !.ch.running = FALSE]

\* OSCHandler.stop.
stop(st) ==
    IF ~st.ch.running THEN st
    ELSE [st EXCEPT !.ch.server = FALSE, !.ch.client = FALSE,
                    !.ch.running = FALSE]

\* VRCUploaderApp._on_osc_visibility_changed, the callback registered at
\* main.py line 89: the setting is stored and saved.
on_osc_visibility_changed(st, visibility) ==
    [st EXCEPT !.ch.default_visibility = visibility,
               !.log = Append(@, Event("callback", visibility, 0,
                                       st.ch.current_visibility))]

handle_recv_echo_first(st, value) ==
    LET st1 == [st EXCEPT !.ch.last_recv_value = value]
    IN  IF value \notin DOMAIN OSC_TO_VISIBILITY THEN st1
        ELSE LET new_visibility == OSC_TO_VISIBILITY[value]
             IN  IF new_visibility = st1.ch.current_visibility THEN st1
                 ELSE on_osc_visibility_changed(
                          send_visibility(st1, new_visibility), new_visibility)

handle_recv_unchecked(st, value) ==
    LET new_visibility == IF value \in DOMAIN OSC_TO_VISIBILITY
                          THEN OSC_TO_VISIBILITY[value] ELSE "self"
        st1 == [st EXCEPT !.ch.last_recv_value = value]
    IN  IF new_visibility = st1.ch.current_visibility THEN st1
        ELSE send_visibility(
                 on_osc_visibility_changed(
                     [st1 EXCEPT !.ch.current_visibility = new_visibility],
                     new_visibility),
                 new_visibility)

handle_recv_always(st, value) ==
    LET st1 == [st EXCEPT !.ch.last_recv_value = value]
    IN  IF value \notin DOMAIN OSC_TO_VISIBILITY THEN st1
        ELSE LET new_visibility == OSC_TO_VISIBILITY[value]
             IN  send_visibility(
                     on_osc_visibility_changed(
                         [st1 EXCEPT !.ch.current_visibility = new_visibility],
                         new_visibility),
                     new_visibility)

\* OSCHandler._handle_recv.
handle_recv(st, value) ==
    LET st1 == [st EXCEPT !.ch.last_recv_value = value]
    IN  IF value \notin DOMAIN OSC_TO_VISIBILITY THEN st1
        ELSE LET new_visibility == OSC_TO_VISIBILITY[value]
             IN  IF new_visibility = st1.ch.current_visibility THEN st1
                 ELSE send_visibility(
                          on_osc_visibility_changed(
                              [st1 EXCEPT !.ch.current_visibility = new_visibility],
                              new_visibility),
                          new_visibility)

\* VRCUploaderApp.start_osc.
start_osc(st, bind_ok) ==
    send_visibility(start(st, bind_ok), st.ch.default_visibility)

\* VRCUploaderApp.send_visibility_to_vrc.
send_visibility_to_vrc(st, visibility) ==
    IF st.ch.running THEN send_visibility(st, visibility) ELSE st

\* MainWindow._on_visibility_changed: the combo box holds the five values.
on_visibility_changed(st, value) ==
    send_visibility_to_vrc([st EXCEPT !.ch.default_visibility = value], value)

\* The operation op, called with vis or code, took the channel to st.
Did(op, vis, code, st) ==
    /\ ChannelBecomes(st.ch)
    /\ osc_log' = st.log
    /\ osc_last' = [op |-> op, vis |-> vis, code |-> code, before |-> Channel]

\* start() called on the channel, the port free or taken.
Start ==
    /\ \E bind_ok \in BOOLEAN :
          Did(IF bind_ok THEN "start" ELSE "start:bind_failed", "none", 0,
              start(Now, bind_ok))
    /\ UNCHANGED <<cvars, svars, lvars, xvars, offline_queue, next_id>>

\* The "start OSC" button, or main() with osc_enabled saved.
StartOsc ==
    /\ \E bind_ok \in BOOLEAN :
          Did(IF bind_ok THEN "start_osc" ELSE "start_osc:bind_failed", "none", 0,
              start_osc(Now, bind_ok))
    /\ UNCHANGED <<cvars, svars, lvars, xvars, offline_queue, next_id>>

\* stop() called on the channel (stop_osc adds a notification only).
Stop ==
    /\ Did("stop", "none", 0, stop(Now))
    /\ UNCHANGED <<cvars, svars, lvars, xvars, offline_queue, next_id>>

\* send_visibility called on the channel, with any string.
SendVisibility ==
    /\ \E visibility \in SavedValues :
          Did("send_visibility", visibility, 0, send_visibility(Now, visibility))
    /\ UNCHANGED <<cvars, svars, lvars, xvars, offline_queue, next_id>>

\* send_status called on the channel.
SendStatus ==
    /\ Did("send_status", "none", 100, send_status(Now, 100))
    /\ UNCHANGED <<cvars, svars, lvars, xvars, offline_queue, next_id>>

\* The user picks a visibility in the window.
OnVisibilityChanged ==
    /\ \E value \in Visibilities :
          Did("on_visibility_changed", value, 0, on_visibility_changed(Now, value))
    /\ UNCHANGED <<cvars, svars, lvars, xvars, offline_queue, next_id>>

\* A datagram for OSC_PARAM_RECV reaches the bound listener and is handled
\* to the end.
HandleRecv ==
    /\ server
    /\ \E value \in RecvCodes :
          Did("handle_recv", "none", value, handle_recv(Now, value))
    /\ UNCHANGED <<cvars, svars, lvars, xvars, offline_queue, next_id>>

OscInit ==
    /\ ControllerOff
    /\ offline_queue = InitStore(0, 0, {})
    /\ next_id = 1
    /\ store_pc = StoreIdle
    /\ enqueued = NoRecords
    /\ written = {}
    /\ store_last = NoCall
    /\ LoopOff
    /\ \E saved \in SavedValues : ChannelIs(NewChannel(saved))
    /\ osc_log = <<>>
    /\ osc_last = NoOp

OscNext ==
    \/ Start
    \/ StartOsc
    \/ Stop
    \/ SendVisibility
    \/ SendStatus
    \/ OnVisibilityChanged
    \/ HandleRecv

\* The control channel on its own, one operation at a time.
OscSpec == OscInit /\ [][OscNext]_vars

\* ------------------------------- the control channel, single-address layout
\* This layout is not in core/osc_handler.py; it is written down here from
\* the specification's description of it (section "Control Channel").

SINGLE_TO_VISIBILITY_from_one ==
    (1 :> "self") @@ (2 :> "friends") @@ (3 :> "instance_friends")
    @@ (4 :> "instance") @@ (5 :> "public")

\* Codes 2-6 map 1:1 to the enum, in both directions.
SINGLE_TO_VISIBILITY ==
    (2 :> "self") @@ (3 :> "friends") @@ (4 :> "instance_friends")
    @@ (5 :> "instance") @@ (6 :> "public")

VISIBILITY_TO_SINGLE ==
    ("self" :> 2) @@ ("friends" :> 3) @@ ("instance_friends" :> 4)
    @@ ("instance" :> 5) @@ ("public" :> 6)

\* Code 1: the peer was reset.
PeerReset == 1

\* The code sent for a value; an unknown value falls back to 'self'.
single_code(visibility) ==
    IF visibility \in DOMAIN VISIBILITY_TO_SINGLE
    THEN VISIBILITY_TO_SINGLE[visibility] ELSE VISIBILITY_TO_SINGLE["self"]

\* Send a value to the peer on the one address.
send_visibility_single(st, visibility) ==
    IF ~st.ch.client THEN st
    ELSE send_message([st EXCEPT !.ch.current_visibility = visibility],
                      single_code(visibility))

\* Send the current value again, changing nothing.
retransmit(st) ==
    IF ~st.ch.client THEN st
    ELSE send_message(st, single_code(st.ch.current_visibility))

handle_recv_single_no_reset(st, value) ==
    IF value \notin DOMAIN SINGLE_TO_VISIBILITY THEN st
    ELSE LET new_visibility == SINGLE_TO_VISIBILITY[value]
         IN  IF new_visibility = st.ch.current_visibility THEN st
             ELSE send_visibility_single(
                      on_osc_visibility_changed(
                          [st EXCEPT !.ch.current_visibility = new_visibility],
                          new_visibility),
                      new_visibility)

\* Receipt of a code: 1 retransmits; 2-6 that decode to another value set
\* it, invoke the callback and echo it; 0 and every other code are ignored.
handle_recv_single(st, value) ==
    IF value = PeerReset THEN retransmit(st)
    ELSE IF value \notin DOMAIN SINGLE_TO_VISIBILITY THEN st
    ELSE LET new_visibility == SINGLE_TO_VISIBILITY[value]
         IN  IF new_visibility = st.ch.current_visibility THEN st
             ELSE send_visibility_single(
                      on_osc_visibility_changed(
                          [st EXCEPT !.ch.current_visibility = new_visibility],
                          new_visibility),
                      new_visibility)

\* start(): bind the listener and announce the current value; a failed
\* bind leaves the feature off.
start_single(st, bind_ok) ==
    IF st.ch.running THEN st
    ELSE IF bind_ok
    THEN retransmit([st EXCEPT !.ch.client = TRUE, !.ch.server = TRUE,
                               !.ch.running = TRUE])
    ELSE st

StartSingle ==
    /\ \E bind_ok \in BOOLEAN :
          Did(IF bind_ok THEN "start_single" ELSE "start_single:bind_failed",
              "none", 0, start_single(Now, bind_ok))
    /\ UNCHANGED <<cvars, svars, lvars, xvars, offline_queue, next_id>>

\* The user picks a visibility in the window.
OnVisibilityChangedSingle ==
    /\ \E value \in Visibilities :
          Did("on_visibility_changed_single", value, 0,
              IF running
              THEN send_visibility_single(
                       [Now EXCEPT !.ch.default_visibility = value], value)
              ELSE [Now EXCEPT !.ch.default_visibility = value])
    /\ UNCHANGED <<cvars, svars, lvars, xvars, offline_queue, next_id>>

\* A datagram reaches the bound listener and is handled to the end.
HandleRecvSingle ==
    /\ server
    /\ \E value \in RecvCodes :
          Did("handle_recv_single", "none", value, handle_recv_single(Now, value))
    /\ UNCHANGED <<cvars, svars, lvars, xvars, offline_queue, next_id>>

SingleNext ==
    \/ StartSingle
    \/ Stop
    \/ OnVisibilityChangedSingle
    \/ HandleRecvSingle

\* The control channel in the single-address layout, on its own.
SingleSpec == OscInit /\ [][SingleNext]_vars

\* ------------------------------------------- a queued photo, field by field
MaxClock == 2     \* ticks of the clock
MaxRows == 1      \* rows of the field-by-field photo ledger

\* Path.name of a screenshot, and that name after replace('.png', '.jpg').
Filenames == {"a.png", "b.jpg"}

jpg_name(filename) == IF filename = "a.png" THEN "a.jpg" ELSE filename

\* log_parser.current_world or (None, None).
CurrentWorlds ==
    {[world_id |-> "None", instance_id |-> "None"],
     [world_id |-> "wrld_1", instance_id |-> "i1"],
     [world_id |-> "wrld_1", instance_id |-> ""]}

\* convert_png_to_jpg's camera data: a dict, as its set of items; a value
\* the decoder did not give is None.
CameraDatas ==
    {{}, {<<"world_code", "1">>},
     {<<"world_code", "1">>, <<"coordinate_x", "None">>}}

\* A value of a truthiness test: None, the empty string and the empty dict
\* are falsy.
Falsy(x) == x = "None" \/ x = ""

\* upload_photo: the multipart form it posts.  Without taken_at the time
\* of the call is sent; world and instance only when truthy; the camera
\* items that are not None, only from a non-empty dict.
upload_photo_form(filename, world_id, instance_id, taken_at, visibility, camera_data) ==
    [filename |-> filename,
     visibility |-> visibility,
     taken_at |-> IF taken_at.none THEN clock ELSE taken_at.at,
     world_id |-> IF Falsy(world_id) THEN "absent" ELSE world_id,
     instance_id |-> IF Falsy(instance_id) THEN "absent" ELSE instance_id,
     meta |-> IF camera_data.none THEN {}
              ELSE {item \in camera_data.items : item[2] # "None"}]

NoTime == [none |-> TRUE, at |-> 0]

AtTime(t) == [none |-> FALSE, at |-> t]

\* queue_photo: the row it appends.  An absent world or instance is
\* written as the empty string, an empty camera dict as the empty string,
\* any other as its JSON text; taken_at, when not given, is the time of
\* the call.
queue_photo_row(filename, world_id, instance_id, visibility, taken_at, camera_data) ==
    [filename |-> filename,
     world_id |-> IF Falsy(world_id) THEN "" ELSE world_id,
     instance_id |-> IF Falsy(instance_id) THEN "" ELSE instance_id,
     visibility |-> visibility,
     taken_at |-> IF taken_at.none THEN clock ELSE taken_at.at,
     camera_data |-> IF camera_data = {} THEN [empty |-> TRUE, json |-> {}]
                     ELSE [empty |-> FALSE, json |-> camera_data]]

\* get_queued_photos: the QueuedPhoto it builds from a row.  An empty
\* world, instance or camera column is read as None.
get_queued_photo(row) ==
    [filename |-> row.filename,
     world_id |-> IF row.world_id = "" THEN "None" ELSE row.world_id,
     instance_id |-> IF row.instance_id = "" THEN "None" ELSE row.instance_id,
     visibility |-> row.visibility,
     taken_at |-> row.taken_at,
     camera_data |-> IF row.camera_data.empty THEN [none |-> TRUE, items |-> {}]
                     ELSE [none |-> FALSE, items |-> row.camera_data.json]]

\* _on_new_screenshot's direct upload_photo call, with the values at hand.
direct_upload_form(filename, world, camera_data) ==
    upload_photo_form(jpg_name(filename), world.world_id, world.instance_id,
                      NoTime, default_visibility,
                      [none |-> FALSE, items |-> camera_data])

\* _queue_photo: the row recorded for a screenshot.
queue_photo_call(filename, world, camera_data) ==
    queue_photo_row(jpg_name(filename), world.world_id, world.instance_id,
                    default_visibility, NoTime, camera_data)

\* _process_offline_queue's upload_photo call for a queued photo.
replay_upload_form(photo) ==
    upload_photo_form(photo.filename, photo.world_id, photo.instance_id,
                      NoTime, photo.visibility, photo.camera_data)

\* Time passes.
Tick ==
    /\ clock < MaxClock
    /\ clock' = clock + 1
    /\ UNCHANGED <<photo_csv, posted>>
    /\ UNCHANGED <<cvars, svars, lvars, ovars, nvars, tvars, offline_queue, next_id>>

\* A screenshot is queued (Offline, or after its direct upload failed).
\* The row carries, as history, the form the direct upload at that moment
\* posts.
QueuePhotoRow ==
    /\ Len(photo_csv) < MaxRows
    /\ \E filename \in Filenames, world \in CurrentWorlds,
          camera_data \in CameraDatas :
          photo_csv' = Append(photo_csv,
              [row |-> queue_photo_call(filename, world, camera_data),
               given |-> direct_upload_form(filename, world, camera_data)])
    /\ UNCHANGED <<clock, posted>>
    /\ UNCHANGED <<cvars, svars, lvars, ovars, nvars, tvars, offline_queue, next_id>>

\* The drain replays the first queued photo; it is removed when the remote
\* accepts it.
ReplayPhoto ==
    /\ photo_csv # <<>>
    /\ posted' = [sent |-> TRUE,
                  form |-> replay_upload_form(get_queued_photo(Head(photo_csv).row)),
                  given |-> Head(photo_csv).given]
    /\ \E ok \in BOOLEAN :
          photo_csv' = IF ok THEN Tail(photo_csv) ELSE photo_csv
    /\ UNCHANGED clock
    /\ UNCHANGED <<cvars, svars, lvars, ovars, nvars, tvars, offline_queue, next_id>>

ReplayNext ==
    \/ Tick
    \/ QueuePhotoRow
    \/ ReplayPhoto

\* Photos queued and replayed field by field while the clock runs, under
\* each saved default visibility.
ReplaySpec == OscInit /\ [][ReplayNext]_vars

\* ------------------------------------------------- notify's subscribers
MaxCallbacks == 3  \* registered subscribers

NotifyEvents == {"status", "offline_mode", "queue_processed"}

\* The subscribers' ids, in registration order.
Registered(cbs) == [i \in 1..Len(cbs) |-> cbs[i].id]

\* add_callback: the subscriber is appended.
add_callback(cbs, raises) == Append(cbs, [id |-> Len(cbs) + 1, raises |-> raises])

RECURSIVE notify_unguarded(_, _, _)
notify_unguarded(cbs, event, d) ==
    IF cbs = <<>> THEN d
    ELSE LET got == [d EXCEPT !.to = Append(@, Head(cbs).id)]
         IN  IF Head(cbs).raises THEN [got EXCEPT !.raised = TRUE]
             ELSE notify_unguarded(Tail(cbs), event, got)

\* notify: each subscriber is called in turn with the event; what one
\* raises is caught and printed, and the loop goes on.
RECURSIVE notify(_, _, _)
notify(cbs, event, d) ==
    IF cbs = <<>> THEN d
    ELSE LET got == [d EXCEPT !.to = Append(@, Head(cbs).id)]
         IN  IF Head(cbs).raises
             THEN notify(Tail(cbs), event, [got EXCEPT !.printed = @ + 1])
             ELSE notify(Tail(cbs), event, got)

\* A subscriber registers; whether its callback raises is its own affair.
AddCallback ==
    /\ Len(callbacks) < MaxCallbacks
    /\ \E raises \in BOOLEAN : callbacks' = add_callback(callbacks, raises)
    /\ UNCHANGED delivery
    /\ UNCHANGED <<cvars, svars, lvars, ovars, rvars, tvars, offline_queue, next_id>>

\* The controller notifies an event.
Notify ==
    /\ \E event \in NotifyEvents :
          delivery' = notify(callbacks, event,
                             [NoDelivery EXCEPT !.sent = TRUE, !.event = event,
                                                !.registered = Registered(callbacks)])
    /\ UNCHANGED callbacks
    /\ UNCHANGED <<cvars, svars, lvars, ovars, rvars, tvars, offline_queue, next_id>>

NotifyNext ==
    \/ AddCallback
    \/ Notify

NotifySpec == OscInit /\ [][NotifyNext]_vars

\* --------------------------------------- the control channel's threads
\* ThreadingOSCUDPServer runs _handle_recv in a thread of its own for each
\* datagram; the window's handlers, start_osc and stop_osc run on the main
\* thread.  A thread's step is one read or write of a shared field.
MaxCalls == 2     \* sends on record before start_osc is last called

\* The inbound codes and the window's choices tried.
ThreadCodes == {0, 2, 3}

UiValues == {"self", "friends"}

Made(ev, vis) == [ev |-> ev, vis |-> vis]

InFlight == {h \in Handlers : handlers[h].pc \notin {"idle", "done"}}

MainThreadFree == ui.pc \in {"idle", "done"}

At(h, pc) == handlers[h].pc = pc

Goto(h, pc) == handlers' = [handlers EXCEPT ![h].pc = pc]

\* The serve_forever loop takes a datagram and starts its handler thread.
Receive(h) ==
    /\ server
    /\ At(h, "idle")
    /\ \E value \in ThreadCodes :
          handlers' = [handlers EXCEPT ![h] =
                          [pc |-> "store", value |-> value, vis |-> "none"]]
    /\ UNCHANGED <<ovars, ui, sock, calls>>
    /\ UNCHANGED <<cvars, svars, lvars, rvars, nvars, offline_queue, next_id>>

\* _handle_recv, line 162, and the look-up of the code (165-166).
HandlerStore(h) ==
    /\ At(h, "store")
    /\ last_recv_value' = handlers[h].value
    /\ handlers' = [handlers EXCEPT ![h] =
          IF handlers[h].value \in DOMAIN OSC_TO_VISIBILITY
          THEN [@ EXCEPT !.pc = "compare",
                         !.vis = OSC_TO_VISIBILITY[handlers[h].value]]
          ELSE [@ EXCEPT !.pc = "done"]]
    /\ UNCHANGED <<running, client, server, current_visibility,
                   default_visibility, osc_log, osc_last, ui, sock, calls>>
    /\ UNCHANGED <<cvars, svars, lvars, rvars, nvars, offline_queue, next_id>>

\* Line 169: the comparison with _current_visibility.
HandlerCompare(h) ==
    /\ At(h, "compare")
    /\ Goto(h, IF handlers[h].vis # current_visibility THEN "assign" ELSE "done")
    /\ UNCHANGED <<ovars, ui, sock, calls>>
    /\ UNCHANGED <<cvars, svars, lvars, rvars, nvars, offline_queue, next_id>>

\* Line 170.
HandlerAssign(h) ==
    /\ At(h, "assign")
    /\ current_visibility' = handlers[h].vis
    /\ Goto(h, "callback")
    /\ UNCHANGED <<running, client, server, last_recv_value,
                   default_visibility, osc_log, osc_last, ui, sock, calls>>
    /\ UNCHANGED <<cvars, svars, lvars, rvars, nvars, offline_queue, next_id>>

\* Lines 173-174: the change callback, _on_osc_visibility_changed.
HandlerCallback(h) ==
    /\ At(h, "callback")
    /\ default_visibility' = handlers[h].vis
    /\ calls' = Append(calls, Made("callback", handlers[h].vis))
    /\ Goto(h, "echo")
    /\ UNCHANGED <<running, client, server, current_visibility,
                   last_recv_value, osc_log, osc_last, ui, sock>>
    /\ UNCHANGED <<cvars, svars, lvars, rvars, nvars, offline_queue, next_id>>

\* Line 177, send_visibility's test of _client (136-137).
HandlerEchoGuard(h) ==
    /\ At(h, "echo")
    /\ Goto(h, IF client THEN "echo_assign" ELSE "done")
    /\ UNCHANGED <<ovars, ui, sock, calls>>
    /\ UNCHANGED <<cvars, svars, lvars, rvars, nvars, offline_queue, next_id>>

\* send_visibility, line 140.
HandlerEchoAssign(h) ==
    /\ At(h, "echo_assign")
    /\ current_visibility' = handlers[h].vis
    /\ Goto(h, "echo_send")
    /\ UNCHANGED <<running, client, server, last_recv_value,
                   default_visibility, osc_log, osc_last, ui, sock, calls>>
    /\ UNCHANGED <<cvars, svars, lvars, rvars, nvars, offline_queue, next_id>>

\* send_visibility, line 143: the message is sent; with _client cleared
\* meanwhile the call raises and the handler at 145 prints it.
HandlerEchoSend(h) ==
    /\ At(h, "echo_send")
    /\ calls' = IF client THEN Append(calls, Made("echo", handlers[h].vis))
                ELSE calls
    /\ Goto(h, "done")
    /\ UNCHANGED <<ovars, ui, sock>>
    /\ UNCHANGED <<cvars, svars, lvars, rvars, nvars, offline_queue, next_id>>

\* MainWindow._on_visibility_changed up to send_visibility's assignment:
\* the setting is stored and saved (465-466); send_visibility_to_vrc and
\* send_visibility test _running and _client, which only the main thread
\* writes.
UiChange ==
    /\ ui.pc = "idle"
    /\ \E value \in UiValues :
          /\ default_visibility' = value
          /\ ui' = [pc |-> IF running /\ client THEN "assign" ELSE "done",
                    value |-> 0, vis |-> value]
    /\ UNCHANGED <<running, client, server, current_visibility,
                   last_recv_value, osc_log, osc_last, handlers, sock, calls>>
    /\ UNCHANGED <<cvars, svars, lvars, rvars, nvars, offline_queue, next_id>>

\* send_visibility on the main thread, lines 140-143.
UiSend ==
    /\ ui.pc = "assign"
    /\ current_visibility' = ui.vis
    /\ calls' = Append(calls, Made("send", ui.vis))
    /\ ui' = [ui EXCEPT !.pc = "done"]
    /\ UNCHANGED <<running, client, server, last_recv_value,
                   default_visibility, osc_log, osc_last, handlers, sock>>
    /\ UNCHANGED <<cvars, svars, lvars, rvars, nvars, offline_queue, next_id>>

\* start_osc on the main thread.  The bind fails while the port is held,
\* by a socket of this process or by another process.
ThreadStartOsc ==
    /\ MainThreadFree
    /\ Len(calls) < MaxCalls
    /\ \E bind_ok \in (IF sock THEN {FALSE} ELSE BOOLEAN) :
          LET st == start_osc(Now, bind_ok)
          IN  /\ Did(IF bind_ok THEN "start_osc" ELSE "start_osc:bind_failed",
                     "none", 0, st)
              /\ sock' = (sock \/ (~running /\ bind_ok))
              /\ calls' = IF st.ch.client
                          THEN Append(calls, Made("send", default_visibility))
                          ELSE calls
    /\ UNCHANGED <<handlers, ui>>
    /\ UNCHANGED <<cvars, svars, lvars, rvars, nvars, offline_queue, next_id>>

\* stop on the main thread: shutdown() ends the serve_forever loop, the
\* references are dropped.  server_close() is not called: the socket is
\* closed when the server object is deallocated, which a handler thread
\* still running prevents and which otherwise happens now or when the
\* loop's thread has gone.
ThreadStop ==
    /\ MainThreadFree
    /\ running
    /\ Did("stop", "none", 0, stop(Now))
    /\ \E freed \in BOOLEAN : sock' = (sock /\ ~(freed /\ InFlight = {}))
    /\ UNCHANGED <<handlers, ui, calls>>
    /\ UNCHANGED <<cvars, svars, lvars, rvars, nvars, offline_queue, next_id>>

\* The last reference to a stopped server goes away: its socket is closed.
Deallocate ==
    /\ sock /\ ~server
    /\ InFlight = {}
    /\ sock' = FALSE
    /\ UNCHANGED <<ovars, handlers, ui, calls>>
    /\ UNCHANGED <<cvars, svars, lvars, rvars, nvars, offline_queue, next_id>>

ThreadNext ==
    \/ ThreadStartOsc
    \/ ThreadStop
    \/ Deallocate
    \/ UiChange
    \/ UiSend
    \/ \E h \in Handlers : Receive(h)
    \/ \E h \in Handlers : HandlerStore(h)
    \/ \E h \in Handlers : HandlerCompare(h)
    \/ \E h \in Handlers : HandlerAssign(h)
    \/ \E h \in Handlers : HandlerCallback(h)
    \/ \E h \in Handlers : HandlerEchoGuard(h)
    \/ \E h \in Handlers : HandlerEchoSend(h)
    \/ \E h \in Handlers : HandlerEchoAssign(h)

\* The control channel with its receiver threads and the main thread.
ThreadSpec == OscInit /\ [][ThreadNext]_vars

\* ============================================================== claims

\* The ids of every row now in the queue, of either kind.
QueuedIds == IdSet(offline_queue.worlds) \cup IdSet(offline_queue.photos)

\* Queue ids are handed out in enqueue order, so a sequence of ids is in
\* enqueue (FIFO) order when it is strictly ascending.
Ascending(ids) == \A i, j \in 1..Len(ids) : i < j => ids[i] < ids[j]

Draining(t) == t.pc \in {"join", "photo"}

NJoinsSent(t) == Cardinality({i \in 1..Len(t.log) : t.log[i].kind = "join"})

\* C1. In every drain the sends issued so far are: the world joins that
\* were queued when the drain began, in their enqueue order and without a
\* gap, and only after all of them the photos, in their enqueue order (the
\* photos that were queued, blob present, when the photo phase began).
C1_DrainOrder ==
    \A t \in BagToSet(sync) :
        Draining(t) =>
            LET nj == NJoinsSent(t)
                np == Len(t.log) - nj
            IN  /\ Ascending(t.q_joins) /\ Ascending(t.q_photos)
                /\ \A i \in 1..Len(t.log) : (t.log[i].kind = "join") <=> (i <= nj)
                /\ nj <= Len(t.q_joins)
                /\ \A i \in 1..nj : t.log[i].id = t.q_joins[i]
                /\ np > 0 => nj = Len(t.q_joins)
                /\ np <= Len(t.q_photos)
                /\ \A i \in 1..np : t.log[nj + i].id = t.q_photos[i]

\* A drain that has sent two queued world joins and then two queued photos.
C1_Witness ==
    \E t \in BagToSet(sync) :
        /\ Len(t.log) >= 4
        /\ t.log[2].kind = "join"
        /\ t.log[3].kind = "photo"

\* C2. When a drain aborts on a failed send, the state is Offline, every
\* item it tried before is out of the queue, and the failed item and the
\* untried items of its snapshot are still queued.
C2_AbortLeavesRest ==
    last.fin = "aborted" =>
        /\ is_offline
        /\ last.tried \cap QueuedIds = {}
        /\ last.id \in QueuedIds
        /\ last.untried \subseteq QueuedIds

\* C3. At most one drain is in progress (suspended on a remote call of
\* _process_offline_queue) at any time.
C3_SingleDrain ==
    LET drains == {t \in BagToSet(sync) : Draining(t)}
    IN  /\ Cardinality(drains) <= 1
        /\ \A t \in drains : CopiesIn(t, sync) = 1

\* C4. When the handler of a failed direct send has returned, the state is
\* Offline and the item is in the queue (a photo with its bytes).
C4_DirectFailQueued ==
    (last.via = "direct" /\ ~last.ok /\ last.op \in {"photo", "join"}) =>
        /\ is_offline
        /\ last.op = "photo" =>
              \E i \in 1..Len(offline_queue.photos) :
                  /\ offline_queue.photos_exists
                  /\ offline_queue.photos[i].ev = last.id
                  /\ offline_queue.photos[i].id \in DOMAIN offline_queue.images
                  /\ offline_queue.images[offline_queue.photos[i].id] = last.id
        /\ last.op = "join" =>
              \E i \in 1..Len(offline_queue.worlds) :
                  /\ offline_queue.worlds_exists
                  /\ offline_queue.worlds[i].ev = last.id

\* A direct photo upload has just failed.
C4_Witness == last.via = "direct" /\ ~last.ok /\ last.op = "photo"

\* C5. Every queue id that was handed out and is no longer in the queue
\* has had a send inside a drain return success.
C5_RemovedWereSent ==
    \A id \in 1..(next_id - 1) : id \notin QueuedIds => id \in sent_ok

\* An item has left the queue while another is still queued.
C5_Witness ==
    /\ \E id \in 1..(next_id - 1) : id \notin QueuedIds
    /\ QueuedIds # {}

\* C6. Once every probe and every send succeeds (the user stays logged in,
\* the timer keeps firing), the queue eventually is empty.
C6_EventuallyDrained == healed ~> ~has_pending_data(offline_queue)

\* The remote has healed with items queued, they were sent, the queue is empty.
C6_Witness ==
    /\ healed
    /\ sent_ok # {}
    /\ ~has_pending_data(offline_queue)
    /\ last.via = "drain" /\ last.fin = "completed"

\* C7, as claimed. From process start until the first successful probe or
\* send the state is Offline.
C7_OfflineUntilFirstSuccess == (started /\ ~ever_ok) => is_offline

\* C7, amended. From process start until the first successful probe or
\* send the state is Offline when the queue held pending data at start;
\* with an empty queue the process starts Online.
C7_OfflineIffPendingAtStart ==
    /\ (started /\ ~ever_ok /\ boot_pending) => is_offline
    /\ (last.op = "main" /\ ~boot_pending) => ~is_offline

\* Started with pending data, nothing has succeeded yet, a probe has failed.
C7_Witness ==
    /\ started /\ ~ever_ok /\ boot_pending
    /\ last.op = "probe" /\ ~last.ok

\* C8. After a photo upload or a join report returned success, directly or
\* inside a drain, the state is Online.
C8_SuccessIsOnline ==
    (last.ok /\ last.op \in {"photo", "join"}) => ~is_offline

\* C9. After a failed sendPhoto, reportJoin or reportLeave, direct or
\* inside a drain, the state is Offline.
C9_FailureIsOffline ==
    (~last.ok /\ last.op \in {"photo", "join", "leave"}) => is_offline

\* C10. After a probe of try_send_queue or force_resend the state equals
\* the probe's result.
C10_StateIsProbeResult ==
    last.op = "probe" => (is_offline <=> ~last.ok)

\* C11. A step in which a probe of try_send_queue or force_resend returns
\* not alive issues no remote send (the coroutine that probed is gone and
\* there is no other new coroutine) and leaves both ledgers and all blobs
\* as they were.
C11_FailedProbeTouchesNothing ==
    [][(last'.op = "probe" /\ ~last'.ok) =>
          /\ offline_queue' = offline_queue
          /\ direct' = direct
          /\ \E t \in BagToSet(sync) :
                t.pc = "probe" /\ sync' = sync (-) SetToBag({t})]_vars

\* A probe has just failed with items in the queue.
C11_Witness ==
    last.op = "probe" /\ ~last.ok /\ has_pending_data(offline_queue)

\* The coroutine _queue_photo schedules.
TrySendTask == [co |-> "try_send_queue", ev |-> 0]

\* C12. A step that enqueues an item (a queue id is handed out) ends
\* Offline and has scheduled try_send_queue behind the tasks waiting.
C12_EnqueueSchedulesDrain ==
    [][(next_id' # next_id) =>
          /\ is_offline'
          /\ \/ task_queue' = Append(task_queue, TrySendTask)
             \/ /\ task_queue # <<>>
                /\ task_queue' = Append(Tail(task_queue), TrySendTask)]_vars

\* C13, as claimed. A step changes the connectivity state only when it
\* observes a probe result or the outcome of a remote call.
C13_OnlyRemoteOutcomes ==
    [][(is_offline' # is_offline) =>
          last'.op \in {"probe", "photo", "join", "leave"}]_vars

\* C13, amended. A step changes the state to Online only on a successful
\* probe or send, and to Offline only on a failed send or in the start-up
\* block of main(), when the store reports pending data.
C13_RemoteOutcomesOrStartup ==
    [][(is_offline' # is_offline) =>
          IF is_offline'
          THEN \/ last'.op \in {"photo", "join"} /\ ~last'.ok
               \/ last'.op = "main" /\ has_pending_data(offline_queue)
          ELSE last'.op \in {"probe", "photo", "join"} /\ last'.ok]_vars

\* Started Online with an empty store; the upload of the one screenshot
\* has failed and the state is Offline.
C13_Witness ==
    /\ started /\ ~boot_pending /\ is_offline
    /\ last.op = "photo" /\ ~last.ok

\* The listing without the bytes: what identifies a listed photo.
Fields(seq) == [i \in 1..Len(seq) |-> [id |-> seq[i].id, ev |-> seq[i].ev]]

\* C14. The photo listing is, in call order, the photos whose enqueue call
\* returned, whose remove call has not, and whose blob is present; the
\* world-join listing is, in call order, the world joins enqueued and not
\* removed.
C14_ListingIsEnqueued ==
    LET HasBlob(r) == r.id \in DOMAIN offline_queue.images
    IN  /\ ~get_queued_photos_raises(offline_queue)
        /\ Fields(get_queued_photos(offline_queue)) =
               Fields(SelectSeq(enqueued.photos, HasBlob))
        /\ get_queued_world_joins(offline_queue) = enqueued.worlds

\* A photo and a world join are listed, and one more photo is enqueued
\* and not listed, its blob being gone.
C14_Witness ==
    /\ store_pc = StoreIdle
    /\ Len(get_queued_photos(offline_queue)) = 1
    /\ Len(enqueued.photos) = 2
    /\ get_queued_world_joins(offline_queue) # <<>>

\* A remove call has just returned whose identifier was not in its ledger.
RemovedUnknown(op) ==
    /\ store_last.op = op /\ store_last.at = "return"
    /\ store_last.id \notin
          IdSet(IF op = "remove_photo" THEN store_last.before.photos
                ELSE store_last.before.worlds)

\* C15, as claimed. After remove_photo or remove_world_join of an
\* identifier that is not in the ledger, both listings and all blobs are
\* as before the call.
C15_RemoveUnknownIsNoOp ==
    (RemovedUnknown("remove_photo") \/ RemovedUnknown("remove_world_join")) =>
        /\ get_queued_photos(offline_queue) = get_queued_photos(store_last.before)
        /\ get_queued_world_joins(offline_queue) =
               get_queued_world_joins(store_last.before)
        /\ offline_queue.images = store_last.before.images

\* C15, amended. After such a call both ledgers and both listings (the
\* photos with their bytes) are as before, and so is every blob except a
\* blob file named by the identifier, which remove_photo deletes.
C15_RemoveUnknownKeepsRecords ==
    (RemovedUnknown("remove_photo") \/ RemovedUnknown("remove_world_join")) =>
        /\ offline_queue.photos = store_last.before.photos
        /\ offline_queue.worlds = store_last.before.worlds
        /\ get_queued_photos(offline_queue) = get_queued_photos(store_last.before)
        /\ get_queued_world_joins(offline_queue) =
               get_queued_world_joins(store_last.before)
        /\ \A i \in DOMAIN store_last.before.images :
              \/ /\ i \in DOMAIN offline_queue.images
                 /\ offline_queue.images[i] = store_last.before.images[i]
              \/ i = store_last.id /\ store_last.op = "remove_photo"
        /\ DOMAIN offline_queue.images \subseteq DOMAIN store_last.before.images

\* remove_world_join of an unknown identifier has returned with two world
\* joins and a photo in the store.
C15_Witness ==
    /\ RemovedUnknown("remove_world_join")
    /\ Len(offline_queue.worlds) = 2
    /\ get_queued_photos(offline_queue) # <<>>

\* C16. Every listed photo carries the bytes that were passed to the
\* enqueue call that returned its id.
C16_BytesRoundTrip ==
    LET listed == get_queued_photos(offline_queue)
    IN  \A i \in 1..Len(listed), j \in 1..Len(enqueued.photos) :
            listed[i].id = enqueued.photos[j].id =>
                listed[i].jpg_bytes = enqueued.photos[j].jpg_bytes

\* Two photos with different bytes are listed after a remove call returned.
C16_Witness ==
    LET listed == get_queued_photos(offline_queue)
    IN  /\ Len(listed) = 2
        /\ listed[1].jpg_bytes # listed[2].jpg_bytes
        /\ store_last.op \in {"remove_photo", "remove_world_join"}
        /\ store_last.at = "return"

\* C17. has_pending_data() is false exactly when each ledger file is
\* absent or holds no row.
C17_PendingIffRows ==
    ~has_pending_data(offline_queue) <=>
        /\ ~offline_queue.photos_exists \/ offline_queue.photos = <<>>
        /\ ~offline_queue.worlds_exists \/ offline_queue.worlds = <<>>

\* The photo ledger is a file with its header and no row, the world-join
\* ledger holds a row.
C17_Witness ==
    /\ offline_queue.photos_exists /\ offline_queue.photos = <<>>
    /\ offline_queue.worlds_exists /\ offline_queue.worlds # <<>>

\* C18. A photo row is in the ledger only if the write of its blob has
\* completed (and the blob, while it exists, is complete); when the
\* process has died between the blob write and the append, the blob is
\* there, complete, and no row names it.
C18_RowOnlyAfterBlob ==
    /\ \A i \in 1..Len(offline_queue.photos) :
          LET id == offline_queue.photos[i].id
          IN  /\ id \in written
              /\ id \in DOMAIN offline_queue.images =>
                     offline_queue.images[id] # Partial
    /\ (store_last.op = "crash:queue_photo" /\ store_last.at = "append") =>
          /\ store_last.id \in DOMAIN offline_queue.images
          /\ offline_queue.images[store_last.id] # Partial
          /\ store_last.id \notin IdSet(offline_queue.photos)

\* The process has died between the blob write and the append.
C18_Witness ==
    store_last.op = "crash:queue_photo" /\ store_last.at = "append"

\* C19. The photo listing does not raise on a row whose blob is missing:
\* it lists exactly the rows whose blob exists, each once, in row order.
C19_MissingBlobSkipped ==
    LET listed == get_queued_photos(offline_queue)
        rows == offline_queue.photos
    IN  /\ ~get_queued_photos_raises(offline_queue)
        /\ \A i \in 1..Len(rows) :
              rows[i].id \in DOMAIN offline_queue.images =>
                  \E k \in 1..Len(listed) : listed[k].id = rows[i].id
        /\ \A k \in 1..Len(listed) :
              /\ listed[k].id \in DOMAIN offline_queue.images
              /\ \E i \in 1..Len(rows) : rows[i].id = listed[k].id
        /\ \A k, l \in 1..Len(listed) : k < l => listed[k].id < listed[l].id

\* A row whose blob is missing stands before a row whose blob exists.
C19_Witness ==
    \E i, j \in 1..Len(offline_queue.photos) :
        /\ i < j
        /\ offline_queue.photos[i].id \notin DOMAIN offline_queue.images
        /\ offline_queue.photos[j].id \in DOMAIN offline_queue.images

\* C20. With a malformed row in the ledger the photo listing does not
\* fail, and it lists every well-formed row whose blob exists.
C20_MalformedRowSkipped ==
    (\E i \in 1..Len(offline_queue.photos) : offline_queue.photos[i].cam = "bad") =>
        /\ ~get_queued_photos_raises(offline_queue)
        /\ \A i \in 1..Len(offline_queue.photos) :
              (/\ offline_queue.photos[i].cam = "ok"
               /\ offline_queue.photos[i].id \in DOMAIN offline_queue.images) =>
                  \E k \in 1..Len(get_queued_photos(offline_queue)) :
                      get_queued_photos(offline_queue)[k].id = offline_queue.photos[i].id

\* C21: when clear_all dies or fails at any of its steps (and at every step
\* of a run that goes through), each kind on its own lists either what it
\* listed before the call or nothing.
C21_ClearAllPerKindAtomic ==
    store_last.op \in {"clear_all", "crash:clear_all"} =>
        /\ get_queued_photos(offline_queue)
              \in {get_queued_photos(store_last.before), <<>>}
        /\ get_queued_world_joins(offline_queue)
              \in {get_queued_world_joins(store_last.before), <<>>}

\* clear_all died between the two unlinks: two photos were listed and none
\* is now, the world join is listed as before.
C21_Witness ==
    /\ store_last.op = "crash:clear_all"
    /\ store_last.at = "worlds"
    /\ Len(get_queued_photos(store_last.before)) = 2
    /\ get_queued_photos(offline_queue) = <<>>
    /\ Len(get_queued_world_joins(offline_queue)) = 1

\* The ledger whose mutating call coroutine c has begun and not finished,
\* or "none".
InCall(c) ==
    IF Finished(c) THEN "none"
    ELSE LET step == Code(c)[coro_pc[c]]
         IN  IF step.kind = "store" /\ step.part > 1 THEN step.ledger ELSE "none"

\* C22: no two coroutines are inside a mutating store call on the same
\* ledger at once, whatever the order in which the loop resumes the
\* screenshot handlers, the join handler and the drains.
C22_StoreCallsNeverInterleave ==
    \A c1, c2 \in Coros :
        (c1 # c2 /\ InCall(c1) # "none") => InCall(c2) # InCall(c1)

\* A drain is in the middle of remove_photo while a screenshot handler
\* whose upload failed waits to run queue_photo on the same ledger.
C22_Witness ==
    /\ InCall("drain1") = "photos"
    /\ coro_pc["drain1"] = 7
    /\ coro_pc["shot1"] = 2
    /\ loop_running = "drain1"

\* C23: after an inbound code outside 1-5 has been handled, the current
\* visibility is what it was, the callback was not invoked and nothing was
\* sent.
C23_InvalidCodeIgnored ==
    (osc_last.op = "handle_recv" /\ osc_last.code \notin 1..5) =>
        /\ current_visibility = osc_last.before.current_visibility
        /\ default_visibility = osc_last.before.default_visibility
        /\ osc_log = <<>>

\* Code 6 arrived while the visibility was 'friends'.
C23_Witness ==
    /\ osc_last.op = "handle_recv"
    /\ osc_last.code = 6
    /\ last_recv_value = 6
    /\ current_visibility = "friends"

\* The visibility the dual-address layout gives an inbound code.
Decoded(code) ==
    CASE code = 1 -> "self"
      [] code = 2 -> "friends"
      [] code = 3 -> "instance_friends"
      [] code = 4 -> "instance"
      [] code = 5 -> "public"
      [] OTHER -> "none"

\* The code the dual-address layout sends for a visibility.
Encoded(visibility) ==
    CASE visibility = "self" -> 101
      [] visibility = "friends" -> 102
      [] visibility = "instance_friends" -> 103
      [] visibility = "instance" -> 104
      [] visibility = "public" -> 105
      [] OTHER -> 101

\* C24: after a code that decodes to a visibility other than the current
\* one has been handled, the current visibility is the new one and the
\* handler did exactly two things: it invoked the callback with the new
\* value, the visibility being set already, and then sent the new value's
\* code to the peer.
C24_SetCallbackEcho ==
    (/\ osc_last.op = "handle_recv"
     /\ osc_last.code \in 1..5
     /\ Decoded(osc_last.code) # osc_last.before.current_visibility) =>
        LET v == Decoded(osc_last.code)
        IN  /\ current_visibility = v
            /\ osc_log = <<Event("callback", v, 0, v),
                           Event("send", "none", Encoded(v), v)>>

\* Code 5 arrived while the visibility was 'friends'.
C24_Witness ==
    /\ osc_last.op = "handle_recv"
    /\ osc_last.code = 5
    /\ osc_last.before.current_visibility = "friends"
    /\ current_visibility = "public"
    /\ Len(osc_log) = 2

\* C25: handling a code that decodes to the visibility already current
\* changes neither the visibility nor the setting, invokes no callback and
\* sends nothing; and when the code just handled arrives again, that second
\* handling invokes no callback and sends nothing.
C25_SameVisibilityNoOp ==
    [][(osc_last'.op = "handle_recv" /\ osc_last'.code \in 1..5) =>
          /\ Decoded(osc_last'.code) = current_visibility =>
                /\ current_visibility' = current_visibility
                /\ default_visibility' = default_visibility
                /\ osc_log' = <<>>
          /\ (osc_last.op = "handle_recv" /\ osc_last.code = osc_last'.code) =>
                osc_log' = <<>>]_vars

\* Code 3 arrived twice in a row; the second handling did nothing.
C25_Witness ==
    /\ osc_last.op = "handle_recv"
    /\ osc_last.code = 3
    /\ osc_last.before.last_recv_value = 3
    /\ osc_last.before.current_visibility = "instance_friends"
    /\ current_visibility = "instance_friends"
    /\ osc_log = <<>>

\* C28: send_visibility on a channel whose client is open sends exactly one
\* message, with code 101..105 for the five values in order and 101 for
\* any other string.
C28_SendCodes ==
    (osc_last.op = "send_visibility" /\ osc_last.before.client) =>
        /\ Len(osc_log) = 1
        /\ osc_log[1].ev = "send"
        /\ osc_log[1].code = Encoded(osc_last.vis)

\* A value outside the enum was sent as 101.
C28_Witness ==
    /\ osc_last.op = "send_visibility"
    /\ osc_last.vis = "everyone"
    /\ osc_last.before.client
    /\ Len(osc_log) = 1
    /\ osc_log[1].code = 101

\* C29: start() on a running channel and stop() on a channel that is not
\* running leave every field of the channel as it was and send nothing.
C29_StartStopIdempotent ==
    /\ (osc_last.op \in {"start", "start:bind_failed"} /\ osc_last.before.running) =>
          (Channel = osc_last.before /\ osc_log = <<>>)
    /\ (osc_last.op = "stop" /\ ~osc_last.before.running) =>
          (Channel = osc_last.before /\ osc_log = <<>>)

\* start() was called, the port free, on a channel already running.
C29_Witness ==
    /\ osc_last.op = "start"
    /\ osc_last.before.running
    /\ running /\ server /\ client
    /\ osc_log = <<>>

\* C30: a start whose bind failed leaves the channel not running and sends
\* nothing, and on a channel that is not running send_visibility and
\* send_status send nothing.
C30_FailedBindDisablesSends ==
    /\ (osc_last.op \in {"start:bind_failed", "start_osc:bind_failed"}
            /\ ~osc_last.before.running) =>
          (~running /\ osc_log = <<>>)
    /\ (osc_last.op \in {"send_visibility", "send_status"}
            /\ ~osc_last.before.running) =>
          osc_log = <<>>

\* The code the single-address layout sends for a visibility.
SingleEncoded(visibility) ==
    CASE visibility = "friends" -> 3
      [] visibility = "instance_friends" -> 4
      [] visibility = "instance" -> 5
      [] visibility = "public" -> 6
      [] OTHER -> 2

\* C26: in the single-address layout, after code 1 has been handled the
\* current visibility and the saved setting are what they were, the
\* callback was not invoked, and the one thing done was to send the current
\* visibility's code to the peer.
C26_ResetRetransmits ==
    (osc_last.op = "handle_recv_single" /\ osc_last.code = 1) =>
        /\ current_visibility = osc_last.before.current_visibility
        /\ default_visibility = osc_last.before.default_visibility
        /\ osc_log = <<Event("send", "none", SingleEncoded(current_visibility),
                             current_visibility)>>

\* Code 1 arrived while the visibility was 'instance'; 5 was sent again.
C26_Witness ==
    /\ osc_last.op = "handle_recv_single"
    /\ osc_last.code = 1
    /\ osc_last.before.current_visibility = "instance"
    /\ Len(osc_log) = 1
    /\ osc_log[1].code = 5

\* C27: in the single-address layout, after code 2, 3, 4, 5 or 6 has been
\* handled the current visibility is self, friends, instance_friends,
\* instance or public respectively; after code 0 the visibility and the
\* setting are what they were and nothing was invoked or sent.
C27_SingleDecode ==
    /\ (osc_last.op = "handle_recv_single" /\ osc_last.code \in 2..6) =>
          current_visibility =
              (CASE osc_last.code = 2 -> "self"
                 [] osc_last.code = 3 -> "friends"
                 [] osc_last.code = 4 -> "instance_friends"
                 [] osc_last.code = 5 -> "instance"
                 [] OTHER -> "public")
    /\ (osc_last.op = "handle_recv_single" /\ osc_last.code = 0) =>
          /\ current_visibility = osc_last.before.current_visibility
          /\ default_visibility = osc_last.before.default_visibility
          /\ osc_log = <<>>

\* Code 6 arrived while the visibility was 'self': it is 'public' now.
C27_Witness ==
    /\ osc_last.op = "handle_recv_single"
    /\ osc_last.code = 6
    /\ osc_last.before.current_visibility = "self"
    /\ current_visibility = "public"

\* The connectivity-mode notifications among ns, in order.
ModeNotes(ns) ==
    LET IsMode(n) == n.event = "offline_mode"
    IN  SelectSeq(ns, IsMode)

\* C32: a step that changes the connectivity state emits exactly one
\* connectivity-mode notification, carrying the new state, and a step that
\* leaves the state alone emits none; so the latest such notification
\* always tells the current state and successive ones alternate.
C32_OneNotePerChange ==
    [][ModeNotes(notes') =
          IF is_offline' # is_offline
          THEN <<Note("offline_mode", IF is_offline' THEN "offline" ELSE "online")>>
          ELSE <<>>]_vars

\* A failed send inside a drain has just set the state Offline, and the one
\* notification of that step says so.
C32_Witness ==
    /\ is_offline
    /\ last.via = "drain" /\ ~last.ok
    /\ ModeNotes(notes) = <<Note("offline_mode", "offline")>>

\* The notifications of the step just taken, as a set.
Notified == {notes[i] : i \in 1..Len(notes)}

\* C33: the step that ends a drain emits a notification that tells how it
\* ended: queue_processed when the drain got through both lists, the
\* change to Offline when a failed send aborted it.
C33_DrainOutcomeNotified ==
    /\ last.fin = "completed" => Note("queue_processed", "none") \in Notified
    /\ last.fin = "aborted" => Note("offline_mode", "offline") \in Notified

\* C40: force_resend returns True, and notifies its resend-complete
\* status, only when it found the queue empty or its drain got through
\* both lists; when the step that ends it is a failed probe or an aborted
\* drain it returns False.
C40_ResendTrueOnlyOnSuccess ==
    /\ (last.ret = "True" \/ Note("status", "resend_complete") \in Notified) =>
          \/ last.op = "force_resend" /\ Note("status", "no_pending") \in Notified
          \/ last.fin = "completed"
    /\ (last.ret # "none" /\ (last.fin = "aborted" \/ (last.op = "probe" /\ ~last.ok))) =>
          last.ret = "False"

\* C39: when a drain has run to completion and no row was enqueued while
\* it ran (every row still stored has an id older than the drain), the
\* store reports no pending data: both counts are zero and
\* has_pending_data is false.
C39_CompletedDrainLeavesNothing ==
    (/\ last.fin = "completed"
     /\ \A id \in IdSet(offline_queue.photos) \cup IdSet(offline_queue.worlds) :
           id < last.mark) =>
        /\ get_queue_counts(offline_queue) = [photos |-> 0, worlds |-> 0]
        /\ ~has_pending_data(offline_queue)

\* C38: once every probe and every send succeeds (the user stays logged
\* in, the timers keep firing), the connectivity state eventually is
\* Online, whether or not a new event arrives; the controller does not
\* stay Offline with an empty queue.
C38_EventuallyOnline == healed ~> ~is_offline

\* C37: a photo replayed from the queue is posted with the values recorded
\* when it was enqueued: file name, world id, instance id, visibility,
\* camera items and the time it was taken.
C37_ReplayedAsRecorded == posted.sent => posted.form = posted.given

\* C34: notify hands the event to every registered subscriber, in
\* registration order, whether or not an earlier subscriber raised, and
\* raises nothing to its caller.
C34_NotifyReachesAll ==
    delivery.sent => /\ delivery.to = delivery.registered
                     /\ ~delivery.raised

\* Three subscribers, the first of which raises, have been notified.
C34_Witness ==
    /\ delivery.sent
    /\ Len(delivery.to) = 3
    /\ callbacks[1].raises

\* C31: once stop() has returned on a running channel, no handler is
\* still at work on an inbound code and the listener's socket is closed,
\* so that a start() that follows can bind the port.
C31_StopEndsReceiving ==
    (osc_last.op = "stop" /\ osc_last.before.running) =>
        /\ InFlight = {}
        /\ ~sock

\* C35: while the channel is running and no handler and no change from
\* the window is in progress, the channel's current visibility is the
\* configured default visibility.
C35_CurrentIsDefault ==
    (running /\ InFlight = {} /\ MainThreadFree) =>
        current_visibility = default_visibility

\* That kind of call was made twice for one visibility with no other
\* visibility called, echoed or sent in between.
Repeated(ev) ==
    \E i, j \in 1..Len(calls) :
       /\ i < j
       /\ calls[i] = Made(ev, calls[i].vis) /\ calls[j] = calls[i]
       /\ \A k \in (i + 1)..(j - 1) : calls[k].vis = calls[i].vis

\* C36: two datagrams carrying the same valid code, handled at once, make
\* one change: the change callback is invoked once for it and the value is
\* echoed once.
C36_SameCodeHandledOnce == ~Repeated("callback") /\ ~Repeated("echo")

====
